---- MODULE Spec2Model ----
(***************************************************************************)
(* Model of the flip-detection engine of the Skyblock AH flipper           *)
(* (services/hypixelService.ts, kept here as src/unnamed/part_001).        *)
(*                                                                         *)
(* Numbers.  Prices are integers (coins).  calculateAhTax multiplies by    *)
(* 0.01 or 0.02, so taxes and profits are kept in hundredths of a coin     *)
(* ("cents"): calculateAhTax(p) is 1*p or 2*p cents.  Math.round is        *)
(* modelled on cents (round half up).  For integer prices below 2^53/100   *)
(* the double results of the code decide every comparison the same way as  *)
(* these exact values.                                                     *)
(*                                                                         *)
(* Names.  A raw item name is a sequence of character tokens: "SECT" is    *)
(* the formatting marker (section sign), "STAR" and "STAFF" the two        *)
(* decorative glyphs, "SP" a whitespace character; every other token is    *)
(* the character itself.                                                   *)
(*                                                                         *)
(* Optional values.  A `RawAuction | null` is a sequence of length <= 1:   *)
(* <<>> is null, <<a>> is the auction a.                                   *)
(***************************************************************************)
EXTENDS Integers, Sequences, FiniteSets, TLC

VARIABLES
    sortedAuctions,      \* findMarketPriceAuction: its argument
    filteredCandidates,  \* findMarketPriceAuction: the local of line 123
    marketPriceAuction,  \* findMarketPriceAuction: the value returned
    estPc,               \* "call" before the call, "done" after it
    taxPrice,            \* calculateAhTax: its argument
    taxResult,           \* calculateAhTax: the value returned, in cents
    postTaxSellPrice,    \* price - calculateAhTax(price), in cents
    taxPc,               \* "call" before the call, "done" after it
    allAuctions,         \* fetchAuctionFlips: the listings fetched (line 162)
    flips,               \* fetchAuctionFlips: the list returned
    pc,                  \* fetchAuctionFlips: "start", "done" or "failed"
    rawName,             \* normalizeAuctionName: its argument
    otherName,           \* normalizeAuctionName: the argument of a second call
    identity,            \* normalizeAuctionName(rawName)
    otherIdentity,       \* normalizeAuctionName(otherName)
    normPc,              \* "call" before the two calls, "done" after them
    itemsToAnalyze,      \* fetchCraftingFlips: the candidates it is called with
    bazaarPrices,        \* the quote snapshot: unit price in cents by product id
    recipeLog,           \* the oracle's response to each analyzeCraftingRecipe call
    processedCount,      \* fetchCraftingFlips: candidates whose oracle call resolved
    progressLog,         \* the values passed to progressCallback, in order
    craftingFlips,       \* fetchCraftingFlips: the crafting flips collected
    craftPc,             \* "call", "bazaar", "loop", "done" or "failed"
    bazaarFetches,       \* fetchCraftingFlips: calls of fetchBazaarPrices so far
    oracleCalls,         \* ids of the candidates analyzeCraftingRecipe was called for
    totalPages,          \* fetchAllAuctionPages: totalPages (line 225)
    chunkStart,          \* fetchAllAuctionPages: i, the first page of the chunk
    pageStatus,          \* how the request for each page went, by page index
    listings,            \* fetchAllAuctionPages: its local allAuctions
    newFlips,            \* AuctionFlips.fetchFlips: the list fetchAuctionFlips returned
    isLoading,           \* AuctionFlips: state isLoading
    error,               \* AuctionFlips: state error ("null" or a message)
    componentFlips,      \* AuctionFlips: state flips
    pagePc,              \* "mount", "page0", "await", "returned" or "threw"
    pageRequests,        \* the page indices requested, in the order of the requests
    trendItems,          \* MarketTrends.fetchTrends: its local itemsToAnalyze
    analyses,            \* what each analyzeItemValue call met and returned, by index
    trends,              \* MarketTrends: state trends
    trendsLoading,       \* MarketTrends: state isLoading
    trendsError,         \* MarketTrends: state error ("null" or a message)
    trendsProgress,      \* MarketTrends: state progress
    trendPc,             \* "mount", "items", "await" or "ended"
    products,            \* fetchBazaarFlips: data.products, in key order
    bazaarFlips,         \* fetchBazaarFlips: the list returned
    bazaarPc,            \* "call", "done" or "failed"
    maxItems,            \* fetchItemsForAnalysis: its argument
    analysisAuctions,    \* fetchItemsForAnalysis: its local allAuctions
    analysisItems,       \* fetchItemsForAnalysis: the list returned
    itemsPc,             \* "call", "done" or "failed"
    reorderedAuctions,   \* a second call of fetchAuctionFlips: its local allAuctions
    reorderedFlips,      \* a second call of fetchAuctionFlips: the list returned
    passStatus,          \* AuctionFlips: each call of fetchFlips, in start order: "unstarted", "inflight", "returned" or "threw"
    flipsSetBy           \* AuctionFlips: the call of fetchFlips whose setFlips ran last, 0 when none did

estVars == <<sortedAuctions, filteredCandidates, marketPriceAuction, estPc>>
taxVars == <<taxPrice, taxResult, postTaxSellPrice, taxPc>>
passVars == <<allAuctions, flips, pc>>
normVars == <<rawName, otherName, identity, otherIdentity, normPc>>
craftVars == <<itemsToAnalyze, bazaarPrices, recipeLog, processedCount,
               progressLog, craftingFlips, craftPc, bazaarFetches, oracleCalls>>
pagesVars == <<totalPages, chunkStart, pageStatus, listings, newFlips,
               isLoading, error, componentFlips, pagePc, pageRequests>>
trendsVars == <<trendItems, analyses, trends, trendsLoading, trendsError,
                trendsProgress, trendPc>>
bazaarVars == <<products, bazaarFlips, bazaarPc>>
itemsVars == <<maxItems, analysisAuctions, analysisItems, itemsPc>>
reorderVars == <<reorderedAuctions, reorderedFlips>>
overlapVars == <<passStatus, flipsSetBy>>

vars == <<estVars, taxVars, passVars, normVars, craftVars, pagesVars, trendsVars, bazaarVars, itemsVars, reorderVars, overlapVars>>

\* The variables a specification leaves alone.
exceptEst == <<taxVars, passVars, normVars, craftVars, pagesVars,
    trendsVars, bazaarVars, itemsVars, reorderVars, overlapVars>>
exceptTax == <<estVars, passVars, normVars, craftVars, pagesVars,
    trendsVars, bazaarVars, itemsVars, reorderVars, overlapVars>>
exceptPass == <<estVars, taxVars, normVars, craftVars, pagesVars,
    trendsVars, bazaarVars, itemsVars, reorderVars, overlapVars>>
exceptNorm == <<estVars, taxVars, passVars, craftVars, pagesVars,
    trendsVars, bazaarVars, itemsVars, reorderVars, overlapVars>>
exceptCraft == <<estVars, taxVars, passVars, normVars, pagesVars,
    trendsVars, bazaarVars, itemsVars, reorderVars, overlapVars>>
exceptPages == <<estVars, taxVars, passVars, normVars, craftVars,
    trendsVars, bazaarVars, itemsVars, reorderVars, overlapVars>>
exceptTrends == <<estVars, taxVars, passVars, normVars, craftVars,
    pagesVars, bazaarVars, itemsVars, reorderVars, overlapVars>>
exceptBazaar == <<estVars, taxVars, passVars, normVars, craftVars,
    pagesVars, trendsVars, itemsVars, reorderVars, overlapVars>>
exceptItems == <<estVars, taxVars, passVars, normVars, craftVars, pagesVars,
    trendsVars, bazaarVars, reorderVars, overlapVars>>
exceptReorder == <<estVars, taxVars, passVars, normVars, craftVars,
    pagesVars, trendsVars, bazaarVars, itemsVars, overlapVars>>
exceptOverlap == <<estVars, taxVars, passVars, normVars, craftVars,
    pagesVars, trendsVars, bazaarVars, itemsVars, reorderVars>>

\* The values of the variables of an operation that is not run.
IdleEst ==
    /\ sortedAuctions = <<>>
    /\ filteredCandidates = <<>>
    /\ marketPriceAuction = <<>>
    /\ estPc = "idle"

IdleTax ==
    /\ taxPrice = 0
    /\ taxResult = 0
    /\ postTaxSellPrice = 0
    /\ taxPc = "idle"

IdlePass ==
    /\ allAuctions = <<>>
    /\ flips = <<>>
    /\ pc = "idle"

IdleNorm ==
    /\ rawName = <<>>
    /\ otherName = <<>>
    /\ identity = <<>>
    /\ otherIdentity = <<>>
    /\ normPc = "idle"

IdleCraft ==
    /\ itemsToAnalyze = <<>>
    /\ bazaarPrices = <<>>
    /\ recipeLog = <<>>
    /\ processedCount = 0
    /\ progressLog = <<>>
    /\ craftingFlips = <<>>
    /\ craftPc = "idle"
    /\ bazaarFetches = 0
    /\ oracleCalls = <<>>

IdlePages ==
    /\ totalPages = 0
    /\ chunkStart = 0
    /\ pageStatus = <<>>
    /\ listings = <<>>
    /\ newFlips = <<>>
    /\ isLoading = FALSE
    /\ error = "null"
    /\ componentFlips = <<>>
    /\ pagePc = "idle"
    /\ pageRequests = <<>>

IdleTrends ==
    /\ trendItems = <<>>
    /\ analyses = <<>>
    /\ trends = <<>>
    /\ trendsLoading = FALSE
    /\ trendsError = "null"
    /\ trendsProgress = 0
    /\ trendPc = "idle"

IdleBazaar ==
    /\ products = <<>>
    /\ bazaarFlips = <<>>
    /\ bazaarPc = "idle"

IdleItems ==
    /\ maxItems = 0
    /\ analysisAuctions = <<>>
    /\ analysisItems = <<>>
    /\ itemsPc = "idle"

IdleReorder ==
    /\ reorderedAuctions = <<>>
    /\ reorderedFlips = <<>>

IdleOverlap ==
    /\ passStatus = <<>>
    /\ flipsSetBy = 0

IdleExceptEst == IdleTax /\ IdlePass /\ IdleNorm /\ IdleCraft /\
    IdlePages /\ IdleTrends /\ IdleBazaar /\ IdleItems /\ IdleReorder /\
    IdleOverlap
IdleExceptTax == IdleEst /\ IdlePass /\ IdleNorm /\ IdleCraft /\
    IdlePages /\ IdleTrends /\ IdleBazaar /\ IdleItems /\ IdleReorder /\
    IdleOverlap
IdleExceptPass == IdleEst /\ IdleTax /\ IdleNorm /\ IdleCraft /\
    IdlePages /\ IdleTrends /\ IdleBazaar /\ IdleItems /\ IdleReorder /\
    IdleOverlap
IdleExceptNorm == IdleEst /\ IdleTax /\ IdlePass /\ IdleCraft /\
    IdlePages /\ IdleTrends /\ IdleBazaar /\ IdleItems /\ IdleReorder /\
    IdleOverlap
IdleExceptCraft == IdleEst /\ IdleTax /\ IdlePass /\ IdleNorm /\
    IdlePages /\ IdleTrends /\ IdleBazaar /\ IdleItems /\ IdleReorder /\
    IdleOverlap
IdleExceptPages == IdleEst /\ IdleTax /\ IdlePass /\ IdleNorm /\
    IdleCraft /\ IdleTrends /\ IdleBazaar /\ IdleItems /\ IdleReorder /\
    IdleOverlap
IdleExceptTrends == IdleEst /\ IdleTax /\ IdlePass /\ IdleNorm /\
    IdleCraft /\ IdlePages /\ IdleBazaar /\ IdleItems /\ IdleReorder /\
    IdleOverlap
IdleExceptBazaar == IdleEst /\ IdleTax /\ IdlePass /\ IdleNorm /\
    IdleCraft /\ IdlePages /\ IdleTrends /\ IdleItems /\ IdleReorder /\
    IdleOverlap
IdleExceptItems == IdleEst /\ IdleTax /\ IdlePass /\ IdleNorm /\
    IdleCraft /\ IdlePages /\ IdleTrends /\ IdleBazaar /\ IdleReorder /\
    IdleOverlap
IdleExceptReorder == IdleEst /\ IdleTax /\ IdlePass /\ IdleNorm /\
    IdleCraft /\ IdlePages /\ IdleTrends /\ IdleBazaar /\ IdleItems /\
    IdleOverlap
IdleExceptOverlap == IdleEst /\ IdleTax /\ IdlePass /\ IdleNorm /\
    IdleCraft /\ IdlePages /\ IdleTrends /\ IdleBazaar /\ IdleItems /\
    IdleReorder

(***************************************************************************)
(* Bounds and input domains                                                *)
(***************************************************************************)
MaxGroup == 6        \* longest group handed to findMarketPriceAuction
MaxListings == 3     \* longest listing feed handed to fetchAuctionFlips
TaxSpan == 40        \* prices within TaxSpan of 0 and of 1,000,000 are taxed
MaxNameLen == 3      \* longest raw name that is edited and normalized
MaxPairLen == 3      \* longest raw name of a pair of unrelated names
MaxItems == 3        \* most candidates handed to fetchCraftingFlips
MaxPages == 7        \* most pages the first page reports
MaxTrendItems == 3   \* most candidates fetchItemsForAnalysis returns
MaxProducts == 2     \* most products of a bazaar response
MaxAnalysisListings == 3  \* longest mixed feed handed to fetchItemsForAnalysis
MaxReorderListings == 3   \* longest feed fetched twice in different orders
MaxPasses == 3            \* most calls of fetchFlips while the component is mounted

\* Prices of the groups the estimator is tried on: a cluster with steps of
\* about 2%, an exact 8% step (100 -> 108), a step just above it
\* (100 -> 109) and two far outliers.
EstPrices == {100, 102, 104, 106, 108, 109, 150, 500}

PROFIT_THRESHOLD == 50000
MIN_PRICE == 1
GAP_THRESHOLD_PCT == 8
TAX_TIER == 1000000
CRAFT_PROFIT_THRESHOLD == 100000
maxPages == 35
chunkSize == 5
TREND_PROFIT_FLOOR == 10000
BAZAAR_MIN_PROFIT == 100
BAZAAR_MIN_VOLUME == 100
DEFAULT_MAX_ITEMS == 15
CRAFTING_MAX_ITEMS == 30
MIN_LORE_LENGTH == 50
MIN_ANALYSIS_PRICE == 250000

(***************************************************************************)
(* calculateAhTax, in cents                                                *)
(***************************************************************************)
\* Mutant: the 2% tier starts above 1,000,000 (> for >=).
calculateAhTaxExclusive(price) ==
    IF price > TAX_TIER THEN price * 2 ELSE price * 1

calculateAhTax(price) ==
    IF price >= TAX_TIER THEN price * 2 ELSE price * 1

\* Math.round of a value given in cents: the nearest integer, halves up.
MathRound(cents) == (cents + 50) \div 100

(***************************************************************************)
(* findMarketPriceAuction                                                  *)
(***************************************************************************)
\* Mutant: the cheapest listing is left among the candidates (slice(0)).
marketCandidatesWhole(s) == s

\* Array.prototype.slice(1)
marketCandidatesOf(s) == SubSeq(s, 2, Len(s))

\* Math.floor(prices.length / 4), Math.floor(prices.length * 3 / 4): 0-based
q1IndexOf(cands) == Len(cands) \div 4
q3IndexOf(cands) == (Len(cands) * 3) \div 4

\* Mutant: the bound is put below the third quartile (q3 - 2.0 * iqr).
upperBoundBelow(cands) ==
    LET q1 == cands[q1IndexOf(cands) + 1].starting_bid
        q3 == cands[q3IndexOf(cands) + 1].starting_bid
        iqr == q3 - q1
    IN  q3 - 2 * iqr

\* q3 + 2.0 * iqr
upperBoundOf(cands) ==
    LET q1 == cands[q1IndexOf(cands) + 1].starting_bid
        q3 == cands[q3IndexOf(cands) + 1].starting_bid
        iqr == q3 - q1
    IN  q3 + 2 * iqr

\* Mutant: a candidate priced at the bound is dropped (< for <=).
InBoundStrict(a, bound) == a.starting_bid < bound

InBound(a, bound) == a.starting_bid <= bound

\* Mutant: no trimming, the wall is looked for among all candidates.
filteredCandidatesUntrimmed(cands) == cands

\* marketCandidates.filter(a => a.starting_bid <= upperBound)
filteredCandidatesOf(cands) ==
    LET bound == upperBoundOf(cands)
    IN  SelectSeq(cands, LAMBDA a : InBound(a, bound))

\* Mutant: a jump of exactly 8% counts as a wall (>= for >).
GapExceedsOrEquals(priceA, priceB) ==
    (priceB - priceA) * 100 >= GAP_THRESHOLD_PCT * priceA

\* (priceB - priceA) / priceA > GAP_THRESHOLD, for priceA > 0
GapExceeds(priceA, priceB) ==
    (priceB - priceA) * 100 > GAP_THRESHOLD_PCT * priceA

\* The for loop of lines 137-148 from index i (0-based) on: the 0-based
\* wallStartIndex, or -1.
RECURSIVE wallScan(_, _)
wallScan(f, i) ==
    IF i >= Len(f) - 1 THEN -1
    ELSE IF f[i + 1].starting_bid > 0
            /\ GapExceeds(f[i + 1].starting_bid, f[i + 2].starting_bid)
         THEN i + 1
         ELSE wallScan(f, i + 1)

wallStartIndexOf(f) == wallScan(f, 0)

\* Mutant: off by one, a[i - 1] || null.
AtOrNullBefore(a, i) == IF i >= 1 /\ i <= Len(a) THEN <<a[i]>> ELSE <<>>

\* a[i] || null for a 0-based index i
AtOrNull(a, i) == IF i + 1 <= Len(a) THEN <<a[i + 1]>> ELSE <<>>

findMarketPriceAuction(s) ==
    IF Len(s) < 3 THEN AtOrNull(s, 1)
    ELSE
      LET cands == marketCandidatesOf(s) IN
      IF q1IndexOf(cands) >= Len(cands) \/ q3IndexOf(cands) >= Len(cands)
      THEN AtOrNull(cands, 0)
      ELSE
        LET f == filteredCandidatesOf(cands) IN
        IF Len(f) < 2 THEN AtOrNull(cands, 0)
        ELSE
          LET w == wallStartIndexOf(f) IN
          IF w # -1 THEN <<f[w + 1]>> ELSE <<f[1]>>

\* The value of the local filteredCandidates when the call returns: <<>> when
\* the function returned before line 123.
filteredLocalOf(s) ==
    IF Len(s) < 3 THEN <<>>
    ELSE LET cands == marketCandidatesOf(s) IN
         IF q1IndexOf(cands) >= Len(cands) \/ q3IndexOf(cands) >= Len(cands)
         THEN <<>>
         ELSE filteredCandidatesOf(cands)

(***************************************************************************)
(* Specification SpecEstimator: findMarketPriceAuction on one group        *)
(***************************************************************************)
EstAuction(i, p) == [uuid |-> i, starting_bid |-> p]

IsAscending(ps) == \A i \in 1..(Len(ps) - 1) : ps[i] <= ps[i + 1]

\* The ascending price sequences of length at most n over EstPrices.
RECURSIVE AscPrices(_)
AscPrices(n) ==
    IF n = 0 THEN {<<>>}
    ELSE LET prev == AscPrices(n - 1)
         IN  prev \cup
             { Append(t[1], t[2]) :
                 t \in { u \in prev \X EstPrices :
                           /\ Len(u[1]) = n - 1
                           /\ (n = 1 \/ u[1][n - 1] <= u[2]) } }

\* The ascending groups of at most MaxGroup listings with prices of EstPrices;
\* a listing's uuid is its position in the group.
EstGroups ==
    { [i \in 1..Len(ps) |-> EstAuction(i, ps[i])] : ps \in AscPrices(MaxGroup) }

InitEstimator ==
    /\ sortedAuctions \in EstGroups
    /\ filteredCandidates = <<>>
    /\ marketPriceAuction = <<>>
    /\ estPc = "call"
    /\ IdleExceptEst

CallFindMarketPriceAuction ==
    /\ estPc = "call"
    /\ filteredCandidates' = filteredLocalOf(sortedAuctions)
    /\ marketPriceAuction' = findMarketPriceAuction(sortedAuctions)
    /\ estPc' = "done"
    /\ UNCHANGED <<sortedAuctions, exceptEst>>

NextEstimator == CallFindMarketPriceAuction

SpecEstimator == InitEstimator /\ [][NextEstimator]_vars

(***************************************************************************)
(* normalizeAuctionName                                                    *)
(***************************************************************************)
\* Mutant: any character after the marker is taken for a code (a '.' for
\* the character class).
IsCodeCharAny(c) == TRUE

\* [a-f0-9k-or]
IsCodeChar(c) ==
    c \in {"0", "1", "2", "3", "4", "5", "6", "7", "8", "9",
           "a", "b", "c", "d", "e", "f", "k", "l", "m", "n", "o", "r"}

\* [STAR STAFF \s]
Decorations == {"STAR", "STAFF", "SP"}

\* The whitespace String.prototype.trim removes
Whitespace == {"SP"}

\* replace(/SECT[a-f0-9k-or]/g, ''): leftmost matches, never overlapping
RECURSIVE stripCodes(_)
stripCodes(name) ==
    IF name = <<>> THEN <<>>
    ELSE IF Len(name) >= 2 /\ name[1] = "SECT" /\ IsCodeChar(name[2])
         THEN stripCodes(SubSeq(name, 3, Len(name)))
         ELSE <<name[1]>> \o stripCodes(Tail(name))

\* name without its longest prefix of characters of chars
RECURSIVE dropLeading(_, _)
dropLeading(name, chars) ==
    IF name # <<>> /\ name[1] \in chars THEN dropLeading(Tail(name), chars)
    ELSE name

\* name without its longest suffix of characters of chars
RECURSIVE dropTrailing(_, _)
dropTrailing(name, chars) ==
    IF name # <<>> /\ name[Len(name)] \in chars
    THEN dropTrailing(SubSeq(name, 1, Len(name) - 1), chars)
    ELSE name

\* replace(/^[STAR STAFF \s]+|[\s STAR STAFF]+$/g, '')
stripDecorations(name) ==
    dropTrailing(dropLeading(name, Decorations), Decorations)

\* String.prototype.trim
trim(name) == dropTrailing(dropLeading(name, Whitespace), Whitespace)

normalizeAuctionName(name) == trim(stripDecorations(stripCodes(name)))

(***************************************************************************)
(* fetchAuctionFlips                                                       *)
(***************************************************************************)
\* Mutant: claimed listings are let through (auc.bin alone).
IsActiveBinIgnoringClaimed(auc) == auc.bin

\* Mutant: auctions that are not fixed-price are let through (!auc.claimed
\* alone).
IsActiveBinIgnoringBin(auc) == ~auc.claimed

\* auc.bin && !auc.claimed
IsActiveBin(auc) == auc.bin /\ ~auc.claimed

\* allAuctions.filter(auc => auc.bin && !auc.claimed)
activeBinsOf(all) == SelectSeq(all, IsActiveBin)

\* The keys of groupedAuctions after the first n active listings were
\* grouped, in the Map's insertion order.
RECURSIVE groupKeysUpTo(_, _)
groupKeysUpTo(bins, n) ==
    IF n = 0 THEN <<>>
    ELSE LET prev == groupKeysUpTo(bins, n - 1)
             normalizedName == normalizeAuctionName(bins[n].item_name)
         IN  IF \E i \in 1..Len(prev) : prev[i] = normalizedName
             THEN prev
             ELSE Append(prev, normalizedName)

groupKeysOf(bins) == groupKeysUpTo(bins, Len(bins))

\* groupedAuctions.get(normalizedName): the listings pushed under the key,
\* in feed order.
groupOf(bins, normalizedName) ==
    SelectSeq(bins,
              LAMBDA a : normalizeAuctionName(a.item_name) = normalizedName)

\* Mutant: the group is left in the order its listings were pushed.
sortByBidUnsorted(auctions) == auctions

\* auctions.sort((a, b) => a.starting_bid - b.starting_bid): the sort is
\* stable, each listing goes after the listings priced no higher.
RECURSIVE sortByBid(_)
sortByBid(auctions) ==
    IF auctions = <<>> THEN <<>>
    ELSE LET n == Len(auctions)
             x == auctions[n]
             sorted == sortByBid(SubSeq(auctions, 1, n - 1))
             k == Cardinality({ i \in 1..Len(sorted) :
                                  sorted[i].starting_bid <= x.starting_bid })
         IN  SubSeq(sorted, 1, k) \o <<x>> \o SubSeq(sorted, k + 1, Len(sorted))

\* Mutant: the tax is forgotten, profit = marketPrice - buyPrice.
profitGross(marketPrice, buyPrice) == 100 * marketPrice - 100 * buyPrice

\* postTaxSellPrice - buyPrice of lines 198-199, in cents
profitOf(marketPrice, buyPrice) ==
    (100 * marketPrice - calculateAhTax(marketPrice)) - 100 * buyPrice

\* Mutant: any positive profit is kept (profit > 0).
ExceedsThresholdZero(profit) == profit > 0

\* profit > PROFIT_THRESHOLD, profit in cents
ExceedsThreshold(profit) == profit > 100 * PROFIT_THRESHOLD

\* One pass of the loop body of lines 179-212 for one group: the flips it
\* pushes (none or one).  rarity and lore are copied from buyAuction as id is.
groupFlips(itemName, auctions) ==
    IF Len(auctions) < 2 THEN <<>>
    ELSE
      LET sorted == sortByBid(auctions)
          buyAuction == sorted[1]
          buyPrice == buyAuction.starting_bid
      IN
      IF buyPrice < MIN_PRICE THEN <<>>
      ELSE
        LET found == findMarketPriceAuction(sorted) IN
        IF found = <<>> THEN <<>>
        ELSE
          LET marketPrice == found[1].starting_bid IN
          IF marketPrice <= buyPrice THEN <<>>
          ELSE
            LET profit == profitOf(marketPrice, buyPrice) IN
            IF ExceedsThreshold(profit)
            THEN << [id |-> buyAuction.uuid,
                     itemName |-> itemName,
                     lowestBin |-> buyPrice,
                     marketPrice |-> marketPrice,
                     profit |-> MathRound(profit)] >>
            ELSE <<>>

\* The flips pushed while the first n groups are visited.
RECURSIVE flipsUpTo(_, _, _)
flipsUpTo(bins, keys, n) ==
    IF n = 0 THEN <<>>
    ELSE flipsUpTo(bins, keys, n - 1)
           \o groupFlips(keys[n], groupOf(bins, keys[n]))

\* Lines 164-214: everything fetchAuctionFlips does with the listings fetched.
detectFlips(all) ==
    LET activeBins == activeBinsOf(all)
        keys == groupKeysOf(activeBins)
    IN  flipsUpTo(activeBins, keys, Len(keys))

(***************************************************************************)
(* Specification SpecTax: calculateAhTax on one price                      *)
(***************************************************************************)
TaxPrices ==
    (0..TaxSpan) \cup ((TAX_TIER - TaxSpan)..(TAX_TIER + TaxSpan))
      \cup {1300000, 2000000}

InitTax ==
    /\ taxPrice \in TaxPrices
    /\ taxResult = 0
    /\ postTaxSellPrice = 0
    /\ taxPc = "call"
    /\ IdleExceptTax

\* calculateAhTax(price) and the net proceeds the callers take from it
\* (lines 198 and 337).
CallCalculateAhTax ==
    /\ taxPc = "call"
    /\ taxResult' = calculateAhTax(taxPrice)
    /\ postTaxSellPrice' = 100 * taxPrice - calculateAhTax(taxPrice)
    /\ taxPc' = "done"
    /\ UNCHANGED <<taxPrice, exceptTax>>

NextTax == CallCalculateAhTax

SpecTax == InitTax /\ [][NextTax]_vars

(***************************************************************************)
(* Specification Spec: one pass of fetchAuctionFlips                       *)
(***************************************************************************)
NameH == <<"H">>
NameHDecorated == <<"SECT", "6", "STAR", "SP", "H">>
NameZ == <<"Z">>

\* What one listing of the feed may be: a listing of either identity at
\* either of two prices, fixed-price or not, claimed or not; a fixed-price
\* unclaimed listing under the decorated raw name at these prices; and, to
\* meet the price floor and both tax tiers, four more fixed-price unclaimed
\* listings.
FeedListings ==
    [item_name : {NameH, NameZ},
     starting_bid : {49098, 100099},
     bin : BOOLEAN, claimed : BOOLEAN]
    \cup
    [item_name : {NameHDecorated},
     starting_bid : {49098, 100099},
     bin : {TRUE}, claimed : {FALSE}]
    \cup
    [item_name : {NameH},
     starting_bid : {0, 100000, 1000000, 1300000},
     bin : {TRUE}, claimed : {FALSE}]

Feeds == UNION { [1..n -> FeedListings] : n \in 0..MaxListings }

\* The listings as fetched: each with its own uuid.
WithUuids(feed) ==
    [i \in 1..Len(feed) |->
        [uuid |-> i,
         item_name |-> feed[i].item_name,
         starting_bid |-> feed[i].starting_bid,
         bin |-> feed[i].bin,
         claimed |-> feed[i].claimed]]

Init ==
    /\ allAuctions = <<>>
    /\ flips = <<>>
    /\ pc = "start"
    /\ IdleExceptPass

\* fetchAuctionFlips when fetchAllAuctionPages resolves with the listings.
fetchAuctionFlips ==
    /\ pc = "start"
    /\ \E feed \in Feeds :
          /\ allAuctions' = WithUuids(feed)
          /\ flips' = detectFlips(WithUuids(feed))
    /\ pc' = "done"
    /\ UNCHANGED exceptPass

\* fetchAuctionFlips when fetchAllAuctionPages throws (lines 220, 222): the
\* rejection passes through line 162 and no list is returned.
fetchAuctionFlipsFails ==
    /\ pc = "start"
    /\ pc' = "failed"
    /\ UNCHANGED <<allAuctions, flips, exceptPass>>

Next == fetchAuctionFlips \/ fetchAuctionFlipsFails

Spec == Init /\ [][Next]_vars

(***************************************************************************)
(* The estimator's contract, stated from the group alone                   *)
(***************************************************************************)
PricesOf(s) == [i \in 1..Len(s) |-> s[i].starting_bid]

\* The candidates (the group minus its cheapest listing), the quartile
\* prices at positions floor(n/4) and floor(3n/4), the bound and the trimmed
\* list T of the group in sortedAuctions.
ClaimCands == Tail(sortedAuctions)
ClaimQ1 == ClaimCands[(Len(ClaimCands) \div 4) + 1].starting_bid
ClaimQ3 == ClaimCands[((3 * Len(ClaimCands)) \div 4) + 1].starting_bid
ClaimBound == ClaimQ3 + 2 * (ClaimQ3 - ClaimQ1)
ClaimTrimmed == SelectSeq(ClaimCands, LAMBDA a : a.starting_bid <= ClaimBound)
ClaimExcluded == SelectSeq(ClaimCands, LAMBDA a : a.starting_bid > ClaimBound)

\* The relative jump from T[i] to T[i+1] is strictly greater than 8%.
ClaimJump(T, i) ==
    100 * (T[i + 1].starting_bid - T[i].starting_bid) > 8 * T[i].starting_bid

ClaimJumps(T) == { i \in 1..(Len(T) - 1) : ClaimJump(T, i) }

SetMin(S) == CHOOSE x \in S : \A y \in S : x <= y

EstDone3 == estPc = "done" /\ Len(sortedAuctions) >= 3

C2_ResultInTrimmed ==
    EstDone3 =>
        /\ Len(marketPriceAuction) = 1
        /\ \E k \in 1..Len(ClaimTrimmed) :
              /\ ClaimTrimmed[k] = marketPriceAuction[1]
              /\ \A j \in 1..Len(ClaimCands) :
                    ClaimCands[j].uuid < marketPriceAuction[1].uuid
                      => ClaimCands[j].starting_bid
                           <= marketPriceAuction[1].starting_bid
        /\ \A j \in 1..Len(ClaimExcluded) :
              marketPriceAuction[1].starting_bid < ClaimExcluded[j].starting_bid

\* C2 witness: trimming excluded a candidate and the result is not the first
\* trimmed candidate.
C2_Witness ==
    /\ EstDone3
    /\ Len(ClaimExcluded) >= 1
    /\ Len(marketPriceAuction) = 1
    /\ marketPriceAuction[1].uuid > 2

\* C3: whatever the length of the group, a listing that is returned sits at
\* position >= 1 (0-based) of the group: never the cheapest listing.
C3_NeverCheapest ==
    estPc = "done" =>
        \A k \in 1..Len(marketPriceAuction) :
            /\ marketPriceAuction[k].uuid >= 2
            /\ marketPriceAuction[k] # sortedAuctions[1]

\* C3 witness: the listing returned costs the same as the cheapest listing
\* and still is another listing.
C3_Witness ==
    /\ EstDone3
    /\ Len(marketPriceAuction) = 1
    /\ marketPriceAuction[1].starting_bid = sortedAuctions[1].starting_bid
    /\ marketPriceAuction[1].uuid = 2

\* C4: a group of exactly 2 listings gives its second-cheapest listing
\* ([100,150] gives the listing priced 150); a group of 1 or 0 gives null.
C4_SmallGroups ==
    estPc = "done" =>
        /\ Len(sortedAuctions) = 2 => marketPriceAuction = <<sortedAuctions[2]>>
        /\ Len(sortedAuctions) <= 1 => marketPriceAuction = <<>>
        /\ PricesOf(sortedAuctions) = <<100, 150>>
             => PricesOf(marketPriceAuction) = <<150>>

\* C4 witness: the group [100,150] answered with the listing priced 150.
C4_Witness ==
    /\ estPc = "done"
    /\ PricesOf(sortedAuctions) = <<100, 150>>
    /\ marketPriceAuction = <<EstAuction(2, 150)>>

\* C5: the trimmed list is exactly the candidates priced <= Q3 + 2(Q3 - Q1),
\* in their original order, Q1 and Q3 the prices at positions floor(n/4) and
\* floor(3n/4) of the candidates; a candidate priced at the bound is kept.
C5_TrimAtBound ==
    EstDone3 => filteredCandidates = ClaimTrimmed

\* C5 witness: a candidate above Q3 priced exactly at the bound was kept.
C5_Witness ==
    /\ EstDone3
    /\ ClaimBound > ClaimQ3
    /\ \E k \in 1..Len(filteredCandidates) :
          filteredCandidates[k].starting_bid = ClaimBound

(***************************************************************************)
(* The tax schedule and the auction flip detector                          *)
(***************************************************************************)
\* C6: for a gross price p >= 0 the tax is 1% of p below 1,000,000 and 2% of
\* p from 1,000,000 on (the tax of 999,999 is 9,999.99, that of 1,000,000 is
\* 20,000), and the net proceeds are p minus that tax.  Amounts in cents.
C6_TaxTiers ==
    taxPc = "done" =>
        /\ taxPrice < 1000000 => 100 * taxResult = 1 * (100 * taxPrice)
        /\ taxPrice >= 1000000 => 100 * taxResult = 2 * (100 * taxPrice)
        /\ taxPrice = 999999 => taxResult = 999999
        /\ taxPrice = 1000000 => taxResult = 100 * 20000
        /\ postTaxSellPrice + taxResult = 100 * taxPrice

\* C6 witness: the price 1,000,000 taxed 20,000.
C6_Witness ==
    /\ taxPc = "done"
    /\ taxPrice = 1000000
    /\ taxResult = 100 * 20000
    /\ postTaxSellPrice = 100 * 980000

\* The qualifying (fixed-price, unclaimed) listings of the feed, the
\* identities they have, and the sorted group of an identity.
ClaimQualifying == SelectSeq(allAuctions, LAMBDA a : a.bin /\ ~a.claimed)
ClaimIdentities ==
    { normalizeAuctionName(ClaimQualifying[i].item_name) :
        i \in 1..Len(ClaimQualifying) }
ClaimGroup(k) ==
    sortByBid(SelectSeq(ClaimQualifying,
                        LAMBDA a : normalizeAuctionName(a.item_name) = k))
ClaimFlipsOf(k) == SelectSeq(flips, LAMBDA f : f.itemName = k)

\* The tax of the schedule, in cents, and the profit of a resale at est of a
\* listing bought at buy, in cents.
ClaimTax(p) == IF p < 1000000 THEN p ELSE 2 * p
ClaimProfit(est, buy) == (100 * est - ClaimTax(est)) - 100 * buy

\* C7: for an identity with at least 2 qualifying listings, a cheapest price
\* at or above the price floor and an estimate priced above it, a flip is
\* emitted if and only if (estimate - tax(estimate)) - buyPrice exceeds
\* 50,000; buying at 1,000,000 with an estimate of 1,300,000 is a flip of
\* profit 274,000.
C7_EmittedIffProfitable ==
    pc = "done" =>
        \A k \in ClaimIdentities :
            LET g == ClaimGroup(k)
                est == findMarketPriceAuction(g)
            IN  (/\ Len(g) >= 2
                 /\ g[1].starting_bid >= 1
                 /\ est # <<>>
                 /\ est[1].starting_bid > g[1].starting_bid)
                =>
                LET buy == g[1].starting_bid
                    e == est[1].starting_bid
                IN  /\ (Len(ClaimFlipsOf(k)) = 1)
                          <=> (ClaimProfit(e, buy) > 100 * 50000)
                    /\ Len(ClaimFlipsOf(k)) <= 1
                    /\ (buy = 1000000 /\ e = 1300000)
                          => /\ Len(ClaimFlipsOf(k)) = 1
                             /\ ClaimFlipsOf(k)[1].lowestBin = 1000000
                             /\ ClaimFlipsOf(k)[1].marketPrice = 1300000
                             /\ ClaimFlipsOf(k)[1].profit = 274000

\* C7 witness: a listing at 1,000,000 under an estimate of 1,300,000, emitted
\* with lowestBin 1,000,000 and profit 274,000.
C7_Witness ==
    /\ pc = "done"
    /\ \E k \in ClaimIdentities :
          LET g == ClaimGroup(k)
          IN  /\ Len(g) >= 2
              /\ g[1].starting_bid = 1000000
              /\ findMarketPriceAuction(g) # <<>>
              /\ findMarketPriceAuction(g)[1].starting_bid = 1300000
              /\ Len(ClaimFlipsOf(k)) = 1
              /\ ClaimFlipsOf(k)[1].profit = 274000

\* C8 as stated: the profit field of every flip returned exceeds 50,000.
C8_ProfitFieldExceeds ==
    pc = "done" => \A i \in 1..Len(flips) : flips[i].profit > 50000

\* C8, amended: the profit field of every flip returned is at least 50,000:
\* it is the profit rounded to the nearest integer, and the profit before
\* rounding exceeds 50,000.
C8_ProfitFieldAtLeast ==
    pc = "done" =>
        \A i \in 1..Len(flips) :
            LET unrounded ==
                    ClaimProfit(flips[i].marketPrice, flips[i].lowestBin)
            IN  /\ flips[i].profit >= 50000
                /\ unrounded > 100 * 50000
                /\ 100 * flips[i].profit - 50 <= unrounded
                /\ unrounded < 100 * flips[i].profit + 50

\* C8 witness: a flip whose profit field is exactly 50,000.
C8_Witness ==
    /\ pc = "done"
    /\ \E i \in 1..Len(flips) : flips[i].profit = 50000

\* The feed without the listings at the positions of S.
WithoutPositions(all, S) ==
    LET kept == SelectSeq([i \in 1..Len(all) |-> i], LAMBDA i : i \notin S)
    IN  [j \in 1..Len(kept) |-> all[kept[j]]]

ClaimNotQualifying ==
    { i \in 1..Len(allAuctions) :
        ~(allAuctions[i].bin /\ ~allAuctions[i].claimed) }

\* C9: a listing that is claimed or not fixed-price is never the buy
\* candidate of a flip, and the flips are those of the feed with any of
\* these listings taken out (so putting them in changes nothing either).
C9_OnlyActiveBins ==
    pc = "done" =>
        /\ \A i \in 1..Len(flips) : flips[i].id \notin ClaimNotQualifying
        /\ \A S \in SUBSET ClaimNotQualifying :
              detectFlips(WithoutPositions(allAuctions, S)) = flips

\* C9 witness: a flip was emitted although the feed holds a claimed or
\* not fixed-price listing of the same identity priced below its buy price.
C9_Witness ==
    /\ pc = "done"
    /\ \E i \in 1..Len(flips) :
          \E j \in ClaimNotQualifying :
              /\ normalizeAuctionName(allAuctions[j].item_name)
                   = flips[i].itemName
              /\ allAuctions[j].starting_bid < flips[i].lowestBin

\* C10: an identity with exactly 1 fixed-price unclaimed listing gets no
\* flip, that listing is the buy candidate of none, and the pass ends
\* normally: it fails only when no listing was fetched.
C10_SingleListingNoFlip ==
    /\ pc = "done" =>
          \A k \in ClaimIdentities :
              Len(ClaimGroup(k)) = 1
                => /\ Len(ClaimFlipsOf(k)) = 0
                   /\ \A i \in 1..Len(flips) :
                         flips[i].id # ClaimGroup(k)[1].uuid
    /\ pc = "failed" => allAuctions = <<>> /\ flips = <<>>

\* C10 witness: a pass over an identity with one qualifying listing and a
\* cheaper listing of it that does not qualify ended with no flip.
C10_Witness ==
    /\ pc = "done"
    /\ \E k \in ClaimIdentities :
          /\ Len(ClaimGroup(k)) = 1
          /\ Len(ClaimFlipsOf(k)) = 0
          /\ \E j \in ClaimNotQualifying :
                /\ normalizeAuctionName(allAuctions[j].item_name) = k
                /\ allAuctions[j].starting_bid < ClaimGroup(k)[1].starting_bid

(***************************************************************************)
(* Specifications SpecNormalizeEdit and SpecNormalizePair:                 *)
(* normalizeAuctionName on two raw names                                   *)
(***************************************************************************)
NameAlphabet == {"SECT", "6", "STAR", "SP", "H"}

\* The raw names of at most n characters of NameAlphabet.
RECURSIVE NamesUpTo(_)
NamesUpTo(n) ==
    IF n = 0 THEN {<<>>}
    ELSE LET prev == NamesUpTo(n - 1)
         IN  prev \cup { Append(t[1], t[2]) : t \in prev \X NameAlphabet }

\* The code characters 0-9, a-f, k-o, r of a formatting escape sequence.
EscapeCodes ==
    {"0", "1", "2", "3", "4", "5", "6", "7", "8", "9",
     "a", "b", "c", "d", "e", "f", "k", "l", "m", "n", "o", "r"}

\* The decorative glyphs and the whitespace.
Affixes == {"STAR", "STAFF", "SP"}

InsertAt(name, p, part) ==
    SubSeq(name, 1, p) \o part \o SubSeq(name, p + 1, Len(name))

DeleteAt(name, p, n) ==
    SubSeq(name, 1, p - 1) \o SubSeq(name, p + n, Len(name))

\* name with one escape sequence inserted at any position, or with one of
\* its escape sequences deleted.
EscapeEdits(name) ==
    { InsertAt(name, p, <<"SECT", c>>) : p \in 0..Len(name), c \in {"6", "a"} }
    \cup
    { DeleteAt(name, p, 2) :
        p \in { q \in 1..(Len(name) - 1) :
                  name[q] = "SECT" /\ name[q + 1] \in EscapeCodes } }

\* name with one glyph or whitespace added at its start or end, or removed
\* from there.
AffixEdits(name) ==
    { <<g>> \o name : g \in Affixes } \cup { name \o <<g>> : g \in Affixes }
    \cup { Tail(name) : x \in { y \in {1} : name # <<>> /\ name[1] \in Affixes } }
    \cup { SubSeq(name, 1, Len(name) - 1) :
             x \in { y \in {1} : name # <<>> /\ name[Len(name)] \in Affixes } }

InitNormalize ==
    /\ rawName = <<>>
    /\ otherName = <<>>
    /\ identity = <<>>
    /\ otherIdentity = <<>>
    /\ normPc = "call"
    /\ IdleExceptNorm

\* The names that differ from name in one piece of decorative markup.
MarkupEdits(name) == EscapeEdits(name) \cup AffixEdits(name)

\* normalizeAuctionName on a name and on an edited copy of it.
NormalizeEdited ==
    /\ normPc = "call"
    /\ \E name \in NamesUpTo(MaxNameLen) :
         \E other \in MarkupEdits(name) :
            /\ rawName' = name
            /\ otherName' = other
            /\ identity' = normalizeAuctionName(name)
            /\ otherIdentity' = normalizeAuctionName(other)
    /\ normPc' = "done"
    /\ UNCHANGED exceptNorm

NextNormalizeEdit == NormalizeEdited

SpecNormalizeEdit == InitNormalize /\ [][NextNormalizeEdit]_vars

\* normalizeAuctionName on any two names.
NormalizePair ==
    /\ normPc = "call"
    /\ \E name \in NamesUpTo(MaxPairLen) :
         \E other \in NamesUpTo(MaxPairLen) :
            /\ rawName' = name
            /\ otherName' = other
            /\ identity' = normalizeAuctionName(name)
            /\ otherIdentity' = normalizeAuctionName(other)
    /\ normPc' = "done"
    /\ UNCHANGED exceptNorm

NextNormalizePair == NormalizePair

SpecNormalizePair == InitNormalize /\ [][NextNormalizePair]_vars

(***************************************************************************)
(* The identity normalizer's contract                                      *)
(***************************************************************************)
\* C11: two raw names that differ by one formatting escape sequence at any
\* position, or by one decorative glyph or whitespace at the start or the
\* end, have the same identity.
C11_MarkupInvariant ==
    normPc = "done" => identity = otherIdentity

HasEscape(name) ==
    \E p \in 1..(Len(name) - 1) :
        name[p] = "SECT" /\ name[p + 1] \in EscapeCodes

\* name without its first escape sequence
DeleteFirstEscape(name) ==
    LET p == SetMin({ q \in 1..(Len(name) - 1) :
                        name[q] = "SECT" /\ name[q + 1] \in EscapeCodes })
    IN  DeleteAt(name, p, 2)

\* name with escape sequences deleted until none is left
RECURSIVE DeleteEveryEscape(_)
DeleteEveryEscape(name) ==
    IF HasEscape(name) THEN DeleteEveryEscape(DeleteFirstEscape(name))
    ELSE name

\* name without leading and trailing glyphs and whitespace
RECURSIVE DeleteAffixes(_)
DeleteAffixes(name) ==
    IF name # <<>> /\ name[1] \in Affixes THEN DeleteAffixes(Tail(name))
    ELSE IF name # <<>> /\ name[Len(name)] \in Affixes
         THEN DeleteAffixes(SubSeq(name, 1, Len(name) - 1))
         ELSE name

\* The base text of a raw name: what is left after deleting every escape
\* sequence and every leading and trailing glyph and whitespace.
ClaimBase(name) == DeleteAffixes(DeleteEveryEscape(name))

\* C12: two raw names with different base texts have different identities,
\* whatever markup each carries.
C12_NoCollision ==
    normPc = "done" =>
        (ClaimBase(rawName) # ClaimBase(otherName) => identity # otherIdentity)

\* C12 witness: a name with an escape sequence and a name that begins with
\* a glyph or whitespace, with different non-empty base texts and different
\* identities.
C12_Witness ==
    /\ normPc = "done"
    /\ HasEscape(rawName)
    /\ otherName # <<>> /\ otherName[1] \in Affixes
    /\ ClaimBase(rawName) # <<>> /\ ClaimBase(otherName) # <<>>
    /\ ClaimBase(rawName) # ClaimBase(otherName)
    /\ identity # otherIdentity

IsClean(name) ==
    /\ ~HasEscape(name)
    /\ name # <<>> =>
          /\ name[1] \notin Affixes
          /\ name[Len(name)] \notin Affixes

\* C13: an identity contains no formatting escape sequence and neither
\* begins nor ends with a decorative glyph or whitespace.
C13_IdentityClean ==
    normPc = "done" => IsClean(identity) /\ IsClean(otherIdentity)

(***************************************************************************)
(* Specification SpecCrafting: one call of fetchCraftingFlips              *)
(***************************************************************************)
\* Resale prices of the candidates, in coins.
CraftItemPrices == {2000000, 4000000}

\* The candidate lists: 1 to MaxItems items, the i-th with id i.
CraftItemLists ==
    UNION { { [i \in 1..n |-> [id |-> i, name |-> <<"item", i>>, price |-> ps[i]]] :
                ps \in [1..n -> CraftItemPrices] } : n \in 1..MaxItems }

\* The quote snapshots fetchBazaarPrices can return (cents per unit): A at
\* 500,000 and B at 930,000 coins, C either without a quote or at 0.4 coins.
BazaarSnapshots ==
    { [A |-> 50000000, B |-> 93000000],
      [A |-> 50000000, B |-> 93000000, C |-> 40] }

\* The ingredients the oracle names: two units of A, two of B, one of C
\* and none of A.
IngA2 == [ingredientId |-> "A", quantity |-> 2]
IngB2 == [ingredientId |-> "B", quantity |-> 2]
IngC1 == [ingredientId |-> "C", quantity |-> 1]
IngA0 == [ingredientId |-> "A", quantity |-> 0]

\* The recipes the oracle answers with: the empty one, each ingredient
\* alone, and pairs with C first or last, with a cost of 0 in the sum, and
\* with A and B in either order.
OracleRecipes ==
    { <<>>, <<IngA2>>, <<IngB2>>, <<IngC1>>, <<IngA0>>,
      <<IngA2, IngC1>>, <<IngC1, IngA2>>, <<IngA2, IngA0>>,
      <<IngA2, IngB2>>, <<IngB2, IngA2>> }

\* What a generateContent call can do: answer with a JSON array of
\* ingredients (possibly empty), or fail.
OracleResponses ==
    { [ok |-> TRUE, recipe |-> r] : r \in OracleRecipes }
    \cup { [ok |-> FALSE, recipe |-> <<>>] }

\* Mutant: analyzeCraftingRecipe without its try/catch.
analyzeCraftingRecipeUncaught(response) ==
    [threw |-> ~response.ok, value |-> response.recipe]

\* geminiService.ts 121-153: the parsed array, or [] when anything in the
\* try block throws; the promise never rejects.
analyzeCraftingRecipe(response) ==
    [threw |-> FALSE, value |-> IF response.ok THEN response.recipe ELSE <<>>]

\* Mutant: the remaining candidates over the total.
progressOfRemaining(count, total) ==
    (200 * (total - count) + total) \div (2 * total)

\* Math.round((processedCount / itemsToAnalyze.length) * 100): the nearest
\* integer, halves up.  For lengths up to 30 every quotient with a half is a
\* dyadic fraction, so the double result is this exact value.
progressOf(count, total) == (200 * count + total) \div (2 * total)

\* Mutant: an ingredient without a quote is passed over.
RECURSIVE costScanSkipping(_, _, _, _)
costScanSkipping(recipeIngredients, prices, i, acc) ==
    IF i > Len(recipeIngredients) THEN acc
    ELSE
      LET ingredient == recipeIngredients[i] IN
      IF ingredient.ingredientId \notin DOMAIN prices
      THEN costScanSkipping(recipeIngredients, prices, i + 1, acc)
      ELSE costScanSkipping(recipeIngredients, prices, i + 1,
             [craftCost |-> acc.craftCost
                              + prices[ingredient.ingredientId] * ingredient.quantity,
              isCraftable |-> acc.isCraftable,
              recipeForDisplay |->
                  Append(acc.recipeForDisplay,
                         [id |-> ingredient.ingredientId,
                          quantity |-> ingredient.quantity])])

\* Mutant: each ingredient is put at the front of recipeForDisplay.
RECURSIVE costScanPrepending(_, _, _, _)
costScanPrepending(recipeIngredients, prices, i, acc) ==
    IF i > Len(recipeIngredients) THEN acc
    ELSE
      LET ingredient == recipeIngredients[i] IN
      IF ingredient.ingredientId \notin DOMAIN prices
      THEN [acc EXCEPT !.isCraftable = FALSE]
      ELSE costScanPrepending(recipeIngredients, prices, i + 1,
             [craftCost |-> acc.craftCost
                              + prices[ingredient.ingredientId] * ingredient.quantity,
              isCraftable |-> acc.isCraftable,
              recipeForDisplay |->
                  <<[id |-> ingredient.ingredientId,
                     quantity |-> ingredient.quantity]>>
                  \o acc.recipeForDisplay])

\* Lines 322-334: the loop over the ingredients from the i-th on; acc holds
\* craftCost (cents), isCraftable and recipeForDisplay so far.
RECURSIVE costScan(_, _, _, _)
costScan(recipeIngredients, prices, i, acc) ==
    IF i > Len(recipeIngredients) THEN acc
    ELSE
      LET ingredient == recipeIngredients[i] IN
      IF ingredient.ingredientId \notin DOMAIN prices
      THEN [acc EXCEPT !.isCraftable = FALSE]
      ELSE costScan(recipeIngredients, prices, i + 1,
             [craftCost |-> acc.craftCost
                              + prices[ingredient.ingredientId] * ingredient.quantity,
              isCraftable |-> acc.isCraftable,
              recipeForDisplay |->
                  Append(acc.recipeForDisplay,
                         [id |-> ingredient.ingredientId,
                          quantity |-> ingredient.quantity])])

\* Line 337, in cents.
craftProfitOf(price, craftCost) ==
    (100 * price - calculateAhTax(price)) - craftCost

\* Mutant: a profit equal to the threshold passes.
ExceedsCraftThresholdOrEquals(profit) == profit >= 100 * CRAFT_PROFIT_THRESHOLD

\* Line 338.
ExceedsCraftThreshold(profit) == profit > 100 * CRAFT_PROFIT_THRESHOLD

\* Lines 314-349: what one candidate adds to craftingFlips.
evaluateItem(item, recipeIngredients, prices) ==
    IF Len(recipeIngredients) = 0 THEN <<>>
    ELSE
      LET scan == costScan(recipeIngredients, prices, 1,
                           [craftCost |-> 0, isCraftable |-> TRUE,
                            recipeForDisplay |-> <<>>])
      IN
      IF scan.isCraftable /\ scan.craftCost > 0
      THEN
        LET profit == craftProfitOf(item.price, scan.craftCost) IN
        IF ExceedsCraftThreshold(profit)
        THEN << [id |-> item.id,
                 itemName |-> item.name,
                 marketPrice |-> item.price,
                 craftCost |-> MathRound(scan.craftCost),
                 profit |-> MathRound(profit),
                 recipe |-> scan.recipeForDisplay] >>
        ELSE <<>>
      ELSE <<>>

InitCrafting ==
    /\ itemsToAnalyze = <<>>
    /\ bazaarPrices = <<>>
    /\ recipeLog = <<>>
    /\ processedCount = 0
    /\ progressLog = <<>>
    /\ craftingFlips = <<>>
    /\ craftPc = "call"
    /\ bazaarFetches = 0
    /\ oracleCalls = <<>>
    /\ IdleExceptCraft

\* Mutant: the loop takes the candidates from the last to the first.
oracleCallsAfterReversed(calls, items, count) ==
    IF count < Len(items) THEN Append(calls, items[Len(items) - count].id)
    ELSE calls

\* Lines 309-310: with count candidates done, the loop goes on to the next
\* candidate, if there is one, and calls analyzeCraftingRecipe for it.
oracleCallsAfter(calls, items, count) ==
    IF count < Len(items) THEN Append(calls, items[count + 1].id)
    ELSE calls

\* fetchCraftingFlips(itemsToAnalyze, progressCallback) is called: line 304
\* calls fetchBazaarPrices.
CallFetchCraftingFlips ==
    /\ craftPc = "call"
    /\ \E items \in CraftItemLists : itemsToAnalyze' = items
    /\ bazaarFetches' = bazaarFetches + 1
    /\ craftPc' = "bazaar"
    /\ UNCHANGED <<bazaarPrices, recipeLog, processedCount, progressLog,
                   craftingFlips, oracleCalls, exceptCraft>>

\* Line 304: fetchBazaarPrices resolves; lines 305-310, up to the oracle
\* call for the first candidate.
fetchBazaarPricesResolves ==
    /\ craftPc = "bazaar"
    /\ \E snapshot \in BazaarSnapshots : bazaarPrices' = snapshot
    /\ craftingFlips' = <<>>
    /\ processedCount' = 0
    /\ oracleCalls' = oracleCallsAfter(oracleCalls, itemsToAnalyze, 0)
    /\ craftPc' = "loop"
    /\ UNCHANGED <<itemsToAnalyze, recipeLog, progressLog, bazaarFetches,
                   exceptCraft>>

\* Line 304: fetchBazaarPrices throws (lines 35, 37) and so does the call.
fetchBazaarPricesFails ==
    /\ craftPc = "bazaar"
    /\ craftPc' = "failed"
    /\ UNCHANGED <<itemsToAnalyze, bazaarPrices, recipeLog, processedCount,
                   progressLog, craftingFlips, bazaarFetches, oracleCalls,
                   exceptCraft>>

\* Lines 309-350: one iteration of the loop, from the oracle's answer for
\* the candidate to the end of the body, and on to the oracle call for the
\* next candidate; line 352 after the last one.
analyzeNextItem ==
    /\ craftPc = "loop"
    /\ processedCount < Len(itemsToAnalyze)
    /\ \E response \in OracleResponses :
         LET item == itemsToAnalyze[processedCount + 1]
             result == analyzeCraftingRecipe(response)
         IN
         /\ recipeLog' = Append(recipeLog, response)
         /\ IF result.threw
            THEN /\ craftPc' = "failed"
                 /\ UNCHANGED <<processedCount, progressLog, craftingFlips,
                                oracleCalls>>
            ELSE /\ processedCount' = processedCount + 1
                 /\ progressLog' =
                      Append(progressLog,
                             progressOf(processedCount + 1, Len(itemsToAnalyze)))
                 /\ craftingFlips' =
                      craftingFlips \o evaluateItem(item, result.value, bazaarPrices)
                 /\ oracleCalls' = oracleCallsAfter(oracleCalls, itemsToAnalyze,
                                                    processedCount + 1)
                 /\ craftPc' = IF processedCount + 1 = Len(itemsToAnalyze)
                               THEN "done" ELSE "loop"
    /\ UNCHANGED <<itemsToAnalyze, bazaarPrices, bazaarFetches, exceptCraft>>

NextCrafting ==
    \/ CallFetchCraftingFlips
    \/ fetchBazaarPricesResolves
    \/ fetchBazaarPricesFails
    \/ analyzeNextItem

SpecCrafting == InitCrafting /\ [][NextCrafting]_vars

(***************************************************************************)
(* The crafting pipeline's contract                                        *)
(***************************************************************************)
\* The candidates whose oracle call has resolved.
ClaimResolved == 1..Len(recipeLog)

\* The recipe the oracle gave for candidate i (empty when the call failed).
ClaimRecipe(i) == IF recipeLog[i].ok THEN recipeLog[i].recipe ELSE <<>>

ClaimQuoted(ingredient) == ingredient.ingredientId \in DOMAIN bazaarPrices

ClaimAllQuoted(i) ==
    \A k \in 1..Len(ClaimRecipe(i)) : ClaimQuoted(ClaimRecipe(i)[k])

\* The sum of unitPrice x quantity over the first n ingredients, in cents.
RECURSIVE ClaimCostUpTo(_, _)
ClaimCostUpTo(i, n) ==
    IF n = 0 THEN 0
    ELSE ClaimCostUpTo(i, n - 1)
           + bazaarPrices[ClaimRecipe(i)[n].ingredientId]
               * ClaimRecipe(i)[n].quantity

ClaimCost(i) == ClaimCostUpTo(i, Len(ClaimRecipe(i)))

\* (resalePrice - tax(resalePrice)) - cost, in cents.
ClaimCraftProfit(i, cost) ==
    (100 * itemsToAnalyze[i].price - ClaimTax(itemsToAnalyze[i].price)) - cost

\* The crafting flips emitted for candidate i.
ClaimCraftFlipsOf(i) ==
    { k \in 1..Len(craftingFlips) : craftingFlips[k].id = itemsToAnalyze[i].id }

\* C14: a candidate whose recipe has an ingredient without a quote, at
\* whatever position, is not in the output, and every crafting flip in the
\* output lists its whole recipe and carries the cost of the whole recipe.
C14_NoPartialCost ==
    \A i \in ClaimResolved :
        /\ ~ClaimAllQuoted(i) => ClaimCraftFlipsOf(i) = {}
        /\ \A k \in ClaimCraftFlipsOf(i) :
              /\ Len(craftingFlips[k].recipe) = Len(ClaimRecipe(i))
              /\ craftingFlips[k].craftCost = MathRound(ClaimCost(i))

\* C14 witness: the pass is over; one candidate has a recipe whose first
\* ingredient has a quote and whose second has none, the first ingredient
\* alone would make it profitable, and it is not in the output; another
\* candidate's recipe lacks the quote of its first ingredient.
C14_Witness ==
    /\ craftPc = "done"
    /\ \E i \in ClaimResolved :
          /\ Len(ClaimRecipe(i)) = 2
          /\ ClaimQuoted(ClaimRecipe(i)[1])
          /\ ~ClaimQuoted(ClaimRecipe(i)[2])
          /\ ClaimCostUpTo(i, 1) > 0
          /\ ClaimCraftProfit(i, ClaimCostUpTo(i, 1)) > 100 * 100000
          /\ ClaimCraftFlipsOf(i) = {}
    /\ \E i \in ClaimResolved :
          /\ Len(ClaimRecipe(i)) = 2
          /\ ~ClaimQuoted(ClaimRecipe(i)[1])
          /\ ClaimQuoted(ClaimRecipe(i)[2])
          /\ ClaimCraftFlipsOf(i) = {}

\* C15: for a candidate with a non-empty recipe whose ingredients all have
\* quotes, with cost the sum of unitPrice x quantity: it is kept exactly
\* when the cost is positive and (resale - tax(resale)) - cost exceeds
\* 100,000, once, with that cost and that profit (rounded to coins).
C15_KeptIffProfitable ==
    \A i \in ClaimResolved :
        (Len(ClaimRecipe(i)) > 0 /\ ClaimAllQuoted(i)) =>
            LET cost == ClaimCost(i)
                profit == ClaimCraftProfit(i, cost)
            IN
            /\ (ClaimCraftFlipsOf(i) # {}) <=> (cost > 0 /\ profit > 100 * 100000)
            /\ Cardinality(ClaimCraftFlipsOf(i)) <= 1
            /\ \A k \in ClaimCraftFlipsOf(i) :
                  /\ craftingFlips[k].marketPrice = itemsToAnalyze[i].price
                  /\ craftingFlips[k].craftCost = (cost + 50) \div 100
                  /\ craftingFlips[k].profit = (profit + 50) \div 100

\* C15 witness: resale 2,000,000 with cost 1,000,000 is kept with profit
\* 960,000, and a candidate whose cost is 0 is not kept.
C15_Witness ==
    /\ craftPc = "done"
    /\ \E i \in ClaimResolved :
          /\ itemsToAnalyze[i].price = 2000000
          /\ Len(ClaimRecipe(i)) > 0 /\ ClaimAllQuoted(i)
          /\ ClaimCost(i) = 100 * 1000000
          /\ \E k \in ClaimCraftFlipsOf(i) :
                craftingFlips[k].craftCost = 1000000 /\ craftingFlips[k].profit = 960000
    /\ \E i \in ClaimResolved :
          /\ Len(ClaimRecipe(i)) > 0 /\ ClaimAllQuoted(i)
          /\ ClaimCost(i) = 0
          /\ ClaimCraftFlipsOf(i) = {}

\* C16: the values passed to the progress callback never decrease, one is
\* passed for each resolved oracle call, and a value is 100 exactly if it
\* is the one passed when all N oracle calls have resolved.
C16_ProgressMonotone ==
    /\ Len(progressLog) = Len(recipeLog)
    /\ \A k \in 1..Len(progressLog) :
          /\ k > 1 => progressLog[k - 1] <= progressLog[k]
          /\ progressLog[k] = 100 <=> k = Len(itemsToAnalyze)

\* C16 witness: a pass over more than one candidate is over, one of the
\* oracle calls failed, and the last value passed is 100.
C16_Witness ==
    /\ craftPc = "done"
    /\ Len(itemsToAnalyze) > 1
    /\ \E i \in ClaimResolved : ~recipeLog[i].ok
    /\ progressLog[1] < 100
    /\ progressLog[Len(progressLog)] = 100

\* Whether candidate i qualifies, whatever the oracle did for the others.
ClaimQualifies(i) ==
    /\ recipeLog[i].ok
    /\ Len(ClaimRecipe(i)) > 0
    /\ ClaimAllQuoted(i)
    /\ ClaimCost(i) > 0
    /\ ClaimCraftProfit(i, ClaimCost(i)) > 100 * 100000

\* C17: once the quotes are fetched the pass does not fail, whatever the
\* oracle does; when the pass is over every candidate has been sent to the
\* oracle, and the output holds exactly the candidates that qualify, in
\* their order.
C17_FaultIsolation ==
    /\ craftPc = "failed" => recipeLog = <<>>
    /\ craftPc = "done" =>
          /\ Len(recipeLog) = Len(itemsToAnalyze)
          /\ \A i \in ClaimResolved :
                Cardinality(ClaimCraftFlipsOf(i)) = IF ClaimQualifies(i) THEN 1 ELSE 0
          /\ \A k \in 1..Len(craftingFlips) :
                /\ \E i \in ClaimResolved : k \in ClaimCraftFlipsOf(i)
                /\ k > 1 => craftingFlips[k - 1].id < craftingFlips[k].id

\* C17 witness: the oracle failed for the first candidate, and the second
\* candidate is returned.
C17_Witness ==
    /\ craftPc = "done"
    /\ Len(itemsToAnalyze) > 1
    /\ ~recipeLog[1].ok
    /\ Len(craftingFlips) = 1
    /\ craftingFlips[1].id = itemsToAnalyze[2].id

(***************************************************************************)
(* Specification SpecPages: one pass of AuctionFlips.fetchFlips, with      *)
(* fetchAllAuctionPages page by page                                       *)
(***************************************************************************)
\* The listings of page j of the feed: one fixed-price unclaimed listing,
\* of H on even pages and of Z on odd ones, at 1,000,000 on pages 0 and 1
\* and at 1,300,000 on the others.
PageAuctions(j) ==
    << [uuid |-> j,
        item_name |-> IF j % 2 = 0 THEN NameH ELSE NameZ,
        starting_bid |-> IF j < 2 THEN 1000000 ELSE 1300000,
        bin |-> TRUE,
        claimed |-> FALSE] >>

\* How the request for page 0 can fail: fetch rejects, response.ok is
\* false (line 220), response.json() rejects, success is false (line 222).
FirstPageFailures == {"networkError", "httpNotOk", "unparsable", "unsuccessful"}

\* How the request for a later page can settle: with a body whose success
\* flag is true, or with a rejected fetch, a rejected res.json(), or a body
\* whose success flag is false.
PageOutcomes == {"ok", "networkError", "unparsable", "unsuccessful"}

MinOf(a, b) == IF a <= b THEN a ELSE b

\* Mutant: the chunk runs to the last page.
chunkEndLast(i, total) == total

\* Line 231: one past the last page of the chunk that starts at page i.
chunkEnd(i, total) == MinOf(i + chunkSize, total)

\* Lines 232-233: the pages of the chunk that starts at page i, in the order
\* of their requests.
chunkPages(i, total) ==
    [k \in 1..(chunkEnd(i, total) - i) |-> i + k - 1]

\* Mutant: a page is kept whenever its request produced a value.
pageKeptUnlessNull(status) == status \in {"ok", "unsuccessful"}

\* Line 245: `page && page.success`; page is null after a rejection.
pageKept(status) == status = "ok"

\* Lines 244-248: allAuctions after the pages from-th to (to - 1)-th of the
\* settled chunk have been applied.
RECURSIVE concatPages(_, _, _, _)
concatPages(all, status, from, to) ==
    IF from >= to THEN all
    ELSE concatPages(IF pageKept(status[from])
                     THEN all \o PageAuctions(from) ELSE all,
                     status, from + 1, to)

\* The requests of lines 232-241 for the chunk that starts at page i.
issueChunk(status, i, total) ==
    [j \in DOMAIN status |->
        IF j >= i /\ j < chunkEnd(i, total) THEN "pending" ELSE status[j]]

\* Mutant: the failure message is not set.
errorAfterThrowCleared == "null"

\* AuctionFlips.tsx 55-56: the catch block.
errorAfterThrow == "FAILED"

\* AuctionFlips.tsx 50-53: error after fetchAuctionFlips returned result.
errorAfterReturn(result) == IF Len(result) = 0 THEN "NO_FLIPS" ELSE "null"

InitPages ==
    /\ totalPages = 0
    /\ chunkStart = 0
    /\ pageStatus = [j \in 0..(MaxPages - 1) |-> "unrequested"]
    /\ listings = <<>>
    /\ newFlips = <<>>
    /\ isLoading = TRUE
    /\ error = "null"
    /\ componentFlips = <<>>
    /\ pagePc = "mount"
    /\ pageRequests = <<>>
    /\ IdleExceptPages

\* AuctionFlips.tsx 45-49 and part_001 162, 219: fetchFlips up to the
\* request for page 0.
fetchFlipsStarts ==
    /\ pagePc = "mount"
    /\ isLoading' = TRUE
    /\ error' = "null"
    /\ pageStatus' = [pageStatus EXCEPT ![0] = "pending"]
    /\ pageRequests' = Append(pageRequests, 0)
    /\ pagePc' = "page0"
    /\ UNCHANGED <<totalPages, chunkStart, listings, newFlips, componentFlips,
                   exceptPages>>

\* Lines 219-222 throw; the rejection passes through fetchAuctionFlips
\* (line 162) to the catch and finally blocks of fetchFlips.
firstPageFails ==
    /\ pagePc = "page0"
    /\ \E failure \in FirstPageFailures :
          pageStatus' = [pageStatus EXCEPT ![0] = failure]
    /\ error' = errorAfterThrow
    /\ isLoading' = FALSE
    /\ pagePc' = "threw"
    /\ UNCHANGED <<totalPages, chunkStart, listings, newFlips, componentFlips,
                   pageRequests, exceptPages>>

\* Lines 219-243 when page 0 is retrieved and reports more than one page:
\* the first chunk is requested.
firstPageResolves ==
    /\ pagePc = "page0"
    /\ \E reported \in 2..MaxPages :
          LET total == MinOf(reported, maxPages) IN
          /\ totalPages' = total
          /\ pageStatus' = issueChunk([pageStatus EXCEPT ![0] = "ok"], 1, total)
          /\ pageRequests' = pageRequests \o chunkPages(1, total)
    /\ listings' = PageAuctions(0)
    /\ chunkStart' = 1
    /\ pagePc' = "await"
    /\ UNCHANGED <<newFlips, isLoading, error, componentFlips, exceptPages>>

\* Lines 219-251 when page 0 is retrieved and is the only page, then
\* fetchAuctionFlips (162-214) and the rest of fetchFlips.
firstPageOnly ==
    /\ pagePc = "page0"
    /\ totalPages' = MinOf(1, maxPages)
    /\ pageStatus' = [pageStatus EXCEPT ![0] = "ok"]
    /\ listings' = PageAuctions(0)
    /\ chunkStart' = 1
    /\ newFlips' = detectFlips(PageAuctions(0))
    /\ componentFlips' = detectFlips(PageAuctions(0))
    /\ error' = errorAfterReturn(detectFlips(PageAuctions(0)))
    /\ isLoading' = FALSE
    /\ pagePc' = "returned"
    /\ UNCHANGED <<pageRequests, exceptPages>>

\* Lines 234-240: the request for page j settles.
pageSettles ==
    /\ pagePc = "await"
    /\ \E j \in DOMAIN pageStatus :
          /\ pageStatus[j] = "pending"
          /\ \E outcome \in PageOutcomes :
                pageStatus' = [pageStatus EXCEPT ![j] = outcome]
    /\ UNCHANGED <<totalPages, chunkStart, listings, newFlips, isLoading, error,
                   componentFlips, pagePc, pageRequests, exceptPages>>

\* Lines 243-248 and 229-241: every request of the chunk has settled, its
\* pages are applied and the next chunk is requested.
chunkCompletes ==
    /\ pagePc = "await"
    /\ \A j \in DOMAIN pageStatus : pageStatus[j] # "pending"
    /\ chunkStart + chunkSize < totalPages
    /\ listings' = concatPages(listings, pageStatus, chunkStart,
                               chunkEnd(chunkStart, totalPages))
    /\ chunkStart' = chunkStart + chunkSize
    /\ pageStatus' = issueChunk(pageStatus, chunkStart + chunkSize, totalPages)
    /\ pageRequests' = pageRequests \o chunkPages(chunkStart + chunkSize, totalPages)
    /\ UNCHANGED <<totalPages, newFlips, isLoading, error, componentFlips,
                   pagePc, exceptPages>>

\* Lines 243-251: every request of the last chunk has settled; then
\* fetchAuctionFlips (162-214) and the rest of fetchFlips.
lastChunkCompletes ==
    /\ pagePc = "await"
    /\ \A j \in DOMAIN pageStatus : pageStatus[j] # "pending"
    /\ chunkStart + chunkSize >= totalPages
    /\ LET all == concatPages(listings, pageStatus, chunkStart,
                              chunkEnd(chunkStart, totalPages))
       IN
       /\ listings' = all
       /\ newFlips' = detectFlips(all)
       /\ componentFlips' = detectFlips(all)
       /\ error' = errorAfterReturn(detectFlips(all))
    /\ chunkStart' = chunkStart + chunkSize
    /\ isLoading' = FALSE
    /\ pagePc' = "returned"
    /\ UNCHANGED <<totalPages, pageStatus, pageRequests, exceptPages>>

NextPages ==
    \/ fetchFlipsStarts
    \/ firstPageFails
    \/ firstPageResolves
    \/ firstPageOnly
    \/ pageSettles
    \/ chunkCompletes
    \/ lastChunkCompletes

SpecPages == InitPages /\ [][NextPages]_vars

(***************************************************************************)
(* The page fetcher's and the AuctionFlips component's contract            *)
(***************************************************************************)
\* The listings of the pages below n that were retrieved successfully.
RECURSIVE ClaimRetrievedBelow(_)
ClaimRetrievedBelow(n) ==
    IF n = 0 THEN <<>>
    ELSE ClaimRetrievedBelow(n - 1)
           \o (IF pageStatus[n - 1] = "ok" THEN PageAuctions(n - 1) ELSE <<>>)

ClaimLaterPages == 1..(totalPages - 1)

\* C18: when page 0 is retrieved the pass does not fail, however the
\* requests for the later pages go; when the pass returns, the listings are
\* those of page 0 and of every later page retrieved successfully, and the
\* flips are the result of detection over exactly those listings.
C18_PartialPagesTolerated ==
    /\ pageStatus[0] = "ok" => pagePc # "threw"
    /\ pagePc = "returned" =>
          /\ pageStatus[0] = "ok"
          /\ listings = ClaimRetrievedBelow(totalPages)
          /\ newFlips = detectFlips(ClaimRetrievedBelow(totalPages))
          /\ componentFlips = newFlips

\* C18 witness: a pass over two chunks has returned; one later page failed
\* in each of the three ways, a page of the second chunk among them, one
\* later page was retrieved, and a flip was found.
C18_Witness ==
    /\ pagePc = "returned"
    /\ totalPages > 1 + chunkSize
    /\ \E j \in ClaimLaterPages : pageStatus[j] = "networkError"
    /\ \E j \in ClaimLaterPages : pageStatus[j] = "unparsable"
    /\ \E j \in ClaimLaterPages : pageStatus[j] = "unsuccessful"
    /\ \E j \in ClaimLaterPages : j > chunkSize /\ pageStatus[j] # "ok"
    /\ \E j \in ClaimLaterPages : pageStatus[j] = "ok"
    /\ Len(listings) = 2
    /\ Len(newFlips) = 1

\* C19: when page 0 cannot be retrieved the pass fails: no flip list is
\* returned or shown, and the component ends the pass with the failure
\* message set and isLoading false.
C19_FirstPageFailureIsHard ==
    pageStatus[0] \in FirstPageFailures =>
        /\ pagePc = "threw"
        /\ newFlips = <<>>
        /\ componentFlips = <<>>
        /\ error = "FAILED"
        /\ isLoading = FALSE

\* C19 witness: page 0 answered with HTTP not ok or with success false and
\* the pass has ended with the failure message.
C19_Witness ==
    /\ pageStatus[0] \in {"httpNotOk", "unsuccessful"}
    /\ pagePc = "threw"
    /\ error = "FAILED"
    /\ isLoading = FALSE

(***************************************************************************)
(* Specification SpecTrends: one pass of MarketTrends.fetchTrends          *)
(***************************************************************************)
\* The candidate lists fetchItemsForAnalysis returns: the i-th has id i.
TrendItemLists ==
    { [i \in 1..n |-> [id |-> i, currentPrice |-> 1000000]] : n \in 1..MaxTrendItems }

\* What a valuation call can meet: generateContent fails, its text is not
\* JSON, or it is a JSON object with the two numbers (here in cents:
\* 0, 0.4, 0.5 and 1,500,000 coins; -1, 10,000.49 and 10,000.5 coins).
ValuationResponses ==
    [status : {"ok"},
     estimatedValue : {0, 40, 50, 150000000},
     potentialProfit : {-100, 1000049, 1000050}]
    \cup
    [status : {"callFailed", "unparsable"},
     estimatedValue : {0},
     potentialProfit : {0}]

\* geminiService.ts 62-96: the rounded numbers of the answer, or the
\* sentinel when anything in the try block throws; the promise never
\* rejects.
analyzeItemValue(response) ==
    IF response.status = "ok"
    THEN [threw |-> FALSE,
          estimatedValue |-> MathRound(response.estimatedValue),
          potentialProfit |-> MathRound(response.potentialProfit)]
    ELSE [threw |-> FALSE, estimatedValue |-> 0, potentialProfit |-> 0]

\* Mutant: every candidate is listed.
trendKeptAlways(t) == TRUE

\* part_000 line 71.
trendKept(t) == t.potentialProfit > TREND_PROFIT_FLOOR /\ t.estimatedValue > 0

\* part_000 line 56.
trendProgressOf(index, total) == (200 * (index + 1) + total) \div (2 * total)

\* part_000 line 71: the elements of newTrends from the i-th on that pass
\* the filter.
RECURSIVE filterTrends(_, _)
filterTrends(newTrends, i) ==
    IF i > Len(newTrends) THEN <<>>
    ELSE (IF trendKept(newTrends[i]) THEN <<newTrends[i]>> ELSE <<>>)
           \o filterTrends(newTrends, i + 1)

\* part_000 lines 57-66: the trend built from the i-th item and its analysis.
trendOf(items, results, i) ==
    [id |-> items[i].id,
     currentPrice |-> items[i].currentPrice,
     estimatedValue |-> results[i].estimatedValue,
     potentialProfit |-> results[i].potentialProfit]

InitTrends ==
    /\ trendItems = <<>>
    /\ analyses = <<>>
    /\ trends = <<>>
    /\ trendsLoading = TRUE
    /\ trendsError = "null"
    /\ trendsProgress = 0
    /\ trendPc = "mount"
    /\ IdleExceptTrends

\* part_000 36-41: fetchTrends up to the call of fetchItemsForAnalysis.
fetchTrendsStarts ==
    /\ trendPc = "mount"
    /\ trendsLoading' = TRUE
    /\ trendsError' = "null"
    /\ trendsProgress' = 0
    /\ trendPc' = "items"
    /\ UNCHANGED <<trendItems, analyses, trends, exceptTrends>>

\* fetchItemsForAnalysis throws: lines 77-84.
fetchItemsFails ==
    /\ trendPc = "items"
    /\ trendsError' = "FAILED"
    /\ trendsLoading' = FALSE
    /\ trendsProgress' = 100
    /\ trendPc' = "ended"
    /\ UNCHANGED <<trendItems, analyses, trends, exceptTrends>>

\* fetchItemsForAnalysis returns no candidate: lines 42-47 and 81-84.
fetchItemsEmpty ==
    /\ trendPc = "items"
    /\ trendItems' = <<>>
    /\ trendsError' = "NO_ITEMS"
    /\ trends' = <<>>
    /\ trendsLoading' = FALSE
    /\ trendsProgress' = 100
    /\ trendPc' = "ended"
    /\ UNCHANGED <<analyses, exceptTrends>>

\* Lines 41-69: fetchItemsForAnalysis returns candidates and a valuation
\* call is issued for each of them.
fetchItemsResolves ==
    /\ trendPc = "items"
    /\ \E items \in TrendItemLists :
          /\ trendItems' = items
          /\ analyses' = [i \in 1..Len(items) |->
                            [status |-> "pending", estimatedValue |-> 0,
                             potentialProfit |-> 0]]
    /\ trendPc' = "await"
    /\ UNCHANGED <<trends, trendsLoading, trendsError, trendsProgress,
                   exceptTrends>>

\* Lines 50-56: the valuation call of one candidate resolves and the
\* progress is set.
valuationSettles ==
    /\ trendPc = "await"
    /\ \E i \in DOMAIN analyses :
          /\ analyses[i].status = "pending"
          /\ \E response \in ValuationResponses :
                LET analysis == analyzeItemValue(response) IN
                IF analysis.threw
                THEN /\ trendsError' = "FAILED"
                     /\ trendsLoading' = FALSE
                     /\ trendsProgress' = 100
                     /\ trendPc' = "ended"
                     /\ UNCHANGED analyses
                ELSE /\ analyses' =
                          [analyses EXCEPT ![i] =
                              [status |-> response.status,
                               estimatedValue |-> analysis.estimatedValue,
                               potentialProfit |-> analysis.potentialProfit]]
                     /\ trendsProgress' = trendProgressOf(i - 1, Len(trendItems))
                     /\ UNCHANGED <<trendsError, trendsLoading, trendPc>>
    /\ UNCHANGED <<trendItems, trends, exceptTrends>>

\* Lines 69-84: every valuation call has resolved.
allValuationsSettled ==
    /\ trendPc = "await"
    /\ \A i \in DOMAIN analyses : analyses[i].status # "pending"
    /\ LET newTrends == [i \in 1..Len(trendItems) |->
                            trendOf(trendItems, analyses, i)]
           profitableTrends == filterTrends(newTrends, 1)
       IN
       /\ trends' = profitableTrends
       /\ trendsError' = IF Len(profitableTrends) = 0 THEN "NO_TRENDS"
                         ELSE trendsError
    /\ trendsLoading' = FALSE
    /\ trendsProgress' = 100
    /\ trendPc' = "ended"
    /\ UNCHANGED <<trendItems, analyses, exceptTrends>>

NextTrends ==
    \/ fetchTrendsStarts
    \/ fetchItemsFails
    \/ fetchItemsEmpty
    \/ fetchItemsResolves
    \/ valuationSettles
    \/ allValuationsSettled

SpecTrends == InitTrends /\ [][NextTrends]_vars

(***************************************************************************)
(* The valuation oracle's contract                                         *)
(***************************************************************************)
ClaimFailed(i) == analyses[i].status \in {"callFailed", "unparsable"}

ClaimSentinel(a) == a.estimatedValue = 0 /\ a.potentialProfit = 0

\* C20: a valuation call that failed, or whose answer could not be parsed,
\* has returned the sentinel (estimatedValue 0, potentialProfit 0) and the
\* pass has not failed for it; no listed trend belongs to such a call and
\* no listed trend carries the sentinel.
C20_SentinelNeverListed ==
    /\ \A i \in DOMAIN analyses : ClaimFailed(i) => ClaimSentinel(analyses[i])
    /\ trendsError = "FAILED" => analyses = <<>>
    /\ \A k \in 1..Len(trends) :
          /\ ~ClaimSentinel(trends[k])
          /\ \E i \in DOMAIN analyses :
                trendItems[i].id = trends[k].id /\ ~ClaimFailed(i)

\* C20 witness: the pass has ended; one valuation call failed, the answer
\* of another could not be parsed, and a third candidate is the only one
\* listed.
C20_Witness ==
    /\ trendPc = "ended"
    /\ \E i \in DOMAIN analyses : analyses[i].status = "callFailed"
    /\ \E i \in DOMAIN analyses : analyses[i].status = "unparsable"
    /\ Len(trends) = 1
    /\ trendsError = "null"

(***************************************************************************)
(* Specification SpecBazaar: one call of fetchBazaarFlips                  *)
(***************************************************************************)
\* What one product of the response may be: without quick_status, or with
\* sellPrice (the instant-buy unit price) 0 or 1000, buyPrice (the
\* instant-sell unit price) 0, 500, 1100 or 1101, and a weekly buy volume
\* of 100 or 101.
BazaarProducts ==
    [hasStatus : {TRUE},
     sellPrice : {0, 1000},
     buyPrice : {0, 500, 1100, 1101},
     buyMovingWeek : {100, 101}]
    \cup
    [hasStatus : {FALSE}, sellPrice : {0}, buyPrice : {0}, buyMovingWeek : {0}]

BazaarResponses == UNION { [1..n -> BazaarProducts] : n \in 0..MaxProducts }

\* Line 65: status && status.sellPrice > 0 && status.buyPrice > 0.
quoteUsable(product) ==
    product.hasStatus /\ product.sellPrice > 0 /\ product.buyPrice > 0

\* Mutant: a profit equal to the minimum passes.
bazaarKeptOrEquals(profit, volume) ==
    profit >= BAZAAR_MIN_PROFIT /\ volume > BAZAAR_MIN_VOLUME

\* Line 69.
bazaarKept(profit, volume) ==
    profit > BAZAAR_MIN_PROFIT /\ volume > BAZAAR_MIN_VOLUME

\* Lines 62-81: the flips of the products from the i-th on; the product id
\* is the position of the product.
RECURSIVE bazaarFlipsFrom(_, _)
bazaarFlipsFrom(data, i) ==
    IF i > Len(data) THEN <<>>
    ELSE
      LET product == data[i]
          buyFor == product.sellPrice
          sellFor == product.buyPrice
          profit == sellFor - buyFor
      IN
      (IF quoteUsable(product) /\ bazaarKept(profit, product.buyMovingWeek)
       THEN << [id |-> i,
                buyPrice |-> buyFor,
                sellPrice |-> sellFor,
                profit |-> profit,
                buyVolume |-> product.buyMovingWeek] >>
       ELSE <<>>)
      \o bazaarFlipsFrom(data, i + 1)

InitBazaar ==
    /\ products = <<>>
    /\ bazaarFlips = <<>>
    /\ bazaarPc = "call"
    /\ IdleExceptBazaar

\* Lines 53-82: the response is ok and its body has success true.
fetchBazaarFlipsReturns ==
    /\ bazaarPc = "call"
    /\ \E data \in BazaarResponses :
          /\ products' = data
          /\ bazaarFlips' = bazaarFlipsFrom(data, 1)
    /\ bazaarPc' = "done"
    /\ UNCHANGED exceptBazaar

\* Lines 55-58 and 83-86: the fetch fails, the response is not ok or its
\* body has success false; the error is rethrown.
fetchBazaarFlipsThrows ==
    /\ bazaarPc = "call"
    /\ bazaarPc' = "failed"
    /\ UNCHANGED <<products, bazaarFlips, exceptBazaar>>

NextBazaar == fetchBazaarFlipsReturns \/ fetchBazaarFlipsThrows

SpecBazaar == InitBazaar /\ [][NextBazaar]_vars

(***************************************************************************)
(* The bazaar flip detector's contract                                     *)
(***************************************************************************)
\* The products that are commodity quotes.
ClaimQuotes == { i \in 1..Len(products) : products[i].hasStatus }

ClaimBazaarFlipsOf(i) == { k \in 1..Len(bazaarFlips) : bazaarFlips[k].id = i }

\* instantSellUnit - instantBuyUnit
ClaimSpread(i) == products[i].buyPrice - products[i].sellPrice

\* C21 as stated: a quote is emitted exactly when its spread exceeds 100
\* and its weekly buy volume exceeds 100, with the spread as its profit.
C21_EmittedIffSpreadAndVolume ==
    \A i \in ClaimQuotes :
        /\ (ClaimBazaarFlipsOf(i) # {}) <=>
              (ClaimSpread(i) > 100 /\ products[i].buyMovingWeek > 100)
        /\ \A k \in ClaimBazaarFlipsOf(i) : bazaarFlips[k].profit = ClaimSpread(i)

\* C21 amended: a quote is emitted exactly when both of its unit prices
\* are positive, its spread exceeds 100 and its weekly buy volume exceeds
\* 100; it is emitted once, with the spread as its profit.
C21_EmittedIffPositiveSpreadAndVolume ==
    \A i \in ClaimQuotes :
        /\ (ClaimBazaarFlipsOf(i) # {}) <=>
              /\ products[i].sellPrice > 0
              /\ products[i].buyPrice > 0
              /\ ClaimSpread(i) > 100
              /\ products[i].buyMovingWeek > 100
        /\ Cardinality(ClaimBazaarFlipsOf(i)) <= 1
        /\ \A k \in ClaimBazaarFlipsOf(i) : bazaarFlips[k].profit = ClaimSpread(i)

\* C21 witness: a quote with spread 101 and volume 101 is emitted with
\* profit 101, and a quote without an instant-buy price, with spread 500
\* and volume 101, is not.
C21_Witness ==
    /\ bazaarPc = "done"
    /\ \E i \in ClaimQuotes :
          /\ ClaimSpread(i) = 101
          /\ products[i].buyMovingWeek = 101
          /\ \E k \in ClaimBazaarFlipsOf(i) : bazaarFlips[k].profit = 101
    /\ \E i \in ClaimQuotes :
          /\ products[i].sellPrice = 0
          /\ ClaimSpread(i) = 500
          /\ products[i].buyMovingWeek = 101
          /\ ClaimBazaarFlipsOf(i) = {}

(***************************************************************************)
(* Further properties of the crafting pipeline                             *)
(***************************************************************************)
\* C22: the recipe list of every kept crafting flip has one entry per
\* ingredient the oracle returned for that candidate, in the oracle's
\* order, each with the oracle's commodity identifier and quantity.
C22_FullBreakdown ==
    \A i \in ClaimResolved :
        \A k \in ClaimCraftFlipsOf(i) :
            /\ Len(craftingFlips[k].recipe) = Len(ClaimRecipe(i))
            /\ \A n \in 1..Len(ClaimRecipe(i)) :
                  /\ craftingFlips[k].recipe[n].id = ClaimRecipe(i)[n].ingredientId
                  /\ craftingFlips[k].recipe[n].quantity = ClaimRecipe(i)[n].quantity

\* C22 witness: a kept crafting flip whose recipe has two different
\* ingredients, the second of which comes first in another kept flip.
C22_Witness ==
    /\ craftPc = "done"
    /\ \E k1, k2 \in 1..Len(craftingFlips) :
          /\ Len(craftingFlips[k1].recipe) = 2
          /\ Len(craftingFlips[k2].recipe) = 2
          /\ craftingFlips[k1].recipe[1].id # craftingFlips[k1].recipe[2].id
          /\ craftingFlips[k2].recipe[1] = craftingFlips[k1].recipe[2]
          /\ craftingFlips[k2].recipe[2] = craftingFlips[k1].recipe[1]

(***************************************************************************)
(* The trend-analysis progress signal                                      *)
(***************************************************************************)
ClaimPendingValuations == { i \in DOMAIN analyses : analyses[i].status = "pending" }

\* C23: in a pass that has issued its valuation calls the progress shown
\* never decreases, whatever order the calls complete in, and it is 100
\* only when every call has resolved.
C23_TrendProgressMonotone ==
    /\ [][trendsProgress' >= trendsProgress]_vars
    /\ [](trendsProgress = 100 => ClaimPendingValuations = {})

\* C24: the quotes are fetched once, and no oracle call is issued before
\* that fetch has completed; when it fails the pass fails with no oracle
\* call and no progress report.  The oracle is called once per candidate,
\* in input order, and the call for a candidate is issued only when the
\* calls for all earlier candidates have resolved and their progress has
\* been reported.
C24_CraftingOrder ==
    /\ bazaarFetches <= 1
    /\ craftPc \in {"loop", "done"} => bazaarFetches = 1
    /\ craftPc \in {"call", "bazaar", "failed"} =>
          oracleCalls = <<>> /\ recipeLog = <<>> /\ progressLog = <<>>
    /\ Len(oracleCalls) <= Len(itemsToAnalyze)
    /\ \A k \in 1..Len(oracleCalls) :
          /\ oracleCalls[k] = itemsToAnalyze[k].id
          /\ Len(recipeLog) >= k - 1
          /\ Len(progressLog) >= k - 1
    /\ Len(recipeLog) <= Len(oracleCalls)
    /\ craftPc = "done" => Len(oracleCalls) = Len(itemsToAnalyze)

\* C24 witness: in a pass over three candidates the second oracle call is
\* outstanding: the first has resolved and its progress has been reported,
\* the third has not been issued.
C24_Witness ==
    /\ craftPc = "loop"
    /\ Len(itemsToAnalyze) = 3
    /\ bazaarFetches = 1
    /\ oracleCalls = <<itemsToAnalyze[1].id, itemsToAnalyze[2].id>>
    /\ Len(recipeLog) = 1
    /\ progressLog = <<33>>

(***************************************************************************)
(* Page coverage of fetchAllAuctionPages                                   *)
(***************************************************************************)
\* How many times page j has been requested.
ClaimRequestCount(j) ==
    Cardinality({ n \in 1..Len(pageRequests) : pageRequests[n] = j })

ClaimPendingPages == { j \in DOMAIN pageStatus : pageStatus[j] = "pending" }

\* The chunk of a later page: pages 1..5 are chunk 0, pages 6..10 chunk 1.
ClaimChunkOf(j) == (j - 1) \div 5

\* C25: once page 0 has reported P pages, no page is requested twice and no
\* page outside 1..P-1 is requested after page 0; at most 5 requests are
\* outstanding, and while a request is outstanding no page of a later chunk
\* has been requested; when the pass returns every page 1..P-1 has been
\* requested exactly once and the listings are those of page 0 followed by
\* those of the successful pages in ascending page order.
C25_PageCoverage ==
    /\ \A j \in DOMAIN pageStatus : ClaimRequestCount(j) <= 1
    /\ \A n \in 1..Len(pageRequests) :
          /\ n = 1 <=> pageRequests[n] = 0
          /\ n > 1 => pageRequests[n] \in 1..(totalPages - 1)
    /\ Cardinality(ClaimPendingPages) <= 5
    /\ \A a \in ClaimPendingPages \ {0} :
          \A n \in 1..Len(pageRequests) :
              pageRequests[n] # 0 => ClaimChunkOf(pageRequests[n]) <= ClaimChunkOf(a)
    /\ pagePc = "returned" =>
          /\ \A j \in 1..(totalPages - 1) : ClaimRequestCount(j) = 1
          /\ listings = ClaimRetrievedBelow(totalPages)

\* C25 witness: page 0 reported 7 pages; of the first chunk, page 5 has been
\* retrieved while the request for page 1 is still outstanding, and page 6
\* has not been requested.
C25_Witness ==
    /\ pagePc = "await"
    /\ totalPages = 7
    /\ pageStatus[5] = "ok"
    /\ pageStatus[1] = "pending"
    /\ ClaimRequestCount(6) = 0

(***************************************************************************)
(* Specification SpecItems: one call of fetchItemsForAnalysis              *)
(***************************************************************************)
\* What one listing of a mixed feed may be.  The lore is kept as its length
\* (0 when item_lore is missing or empty).
AnalysisListings ==
    \* listings that pass every filter
    [item_name : {NameH, NameHDecorated, NameZ},
     starting_bid : {250001, 300000},
     tier : {"EPIC"}, loreLength : {51}, bin : {TRUE}, claimed : {FALSE}]
    \cup
    { [item_name |-> NameZ, starting_bid |-> 400000, tier |-> "MYTHIC",
       loreLength |-> 51, bin |-> TRUE, claimed |-> FALSE],
      \* cheaper listings of H that fail one filter
      [item_name |-> NameH, starting_bid |-> 250000, tier |-> "EPIC",
       loreLength |-> 51, bin |-> TRUE, claimed |-> FALSE],
      [item_name |-> NameH, starting_bid |-> 250001, tier |-> "RARE",
       loreLength |-> 51, bin |-> TRUE, claimed |-> FALSE],
      [item_name |-> NameH, starting_bid |-> 250001, tier |-> "EPIC",
       loreLength |-> 50, bin |-> TRUE, claimed |-> FALSE],
      \* cheaper listings of H that are not active fixed-price listings
      [item_name |-> NameH, starting_bid |-> 250001, tier |-> "EPIC",
       loreLength |-> 51, bin |-> FALSE, claimed |-> FALSE],
      [item_name |-> NameH, starting_bid |-> 250001, tier |-> "EPIC",
       loreLength |-> 51, bin |-> TRUE, claimed |-> TRUE] }

MixedFeeds ==
    UNION { [1..n -> AnalysisListings] : n \in 0..MaxAnalysisListings }

\* Seventeen one-letter names, none of them a formatting code.
WideNames ==
    << <<"G">>, <<"H">>, <<"I">>, <<"J">>, <<"P">>, <<"Q">>, <<"S">>, <<"T">>,
       <<"U">>, <<"V">>, <<"W">>, <<"X">>, <<"Y">>, <<"Z">>, <<"g">>, <<"h">>,
       <<"i">> >>

\* Feeds of 14 to 17 identities, one listing each, every one passing the
\* filters, in ascending order of price.
WideFeeds ==
    { [k \in 1..n |->
          [item_name |-> WideNames[k], starting_bid |-> 300000 + k,
           tier |-> "LEGENDARY", loreLength |-> 51, bin |-> TRUE,
           claimed |-> FALSE]] : n \in 14..17 }

\* The listings as fetched: each with its own uuid.
WithAnalysisUuids(feed) ==
    [i \in 1..Len(feed) |->
        [uuid |-> i,
         item_name |-> feed[i].item_name,
         starting_bid |-> feed[i].starting_bid,
         tier |-> feed[i].tier,
         loreLength |-> feed[i].loreLength,
         bin |-> feed[i].bin,
         claimed |-> feed[i].claimed]]

\* Mutant: a listing at the same price replaces the one held.
replacesExistingOrEqual(auction, existing) ==
    auction.starting_bid <= existing.starting_bid

\* Line 272: auction.starting_bid < existing.starting_bid.
replacesExisting(auction, existing) ==
    auction.starting_bid < existing.starting_bid

\* The position of key in the entries of the map, 0 when it has none.
keyIndex(entries, key) ==
    LET hits == { k \in 1..Len(entries) : entries[k].key = key }
    IN  IF hits = {} THEN 0 ELSE CHOOSE k \in hits : TRUE

\* Lines 268-275: itemMap after the first n active listings, as its entries
\* in insertion order; setting an existing key keeps the key's place.
RECURSIVE itemMapUpTo(_, _)
itemMapUpTo(bins, n) ==
    IF n = 0 THEN <<>>
    ELSE
      LET entries == itemMapUpTo(bins, n - 1)
          auction == bins[n]
          normalizedName == normalizeAuctionName(auction.item_name)
          at == keyIndex(entries, normalizedName)
      IN
      IF at = 0
      THEN Append(entries, [key |-> normalizedName, value |-> auction])
      ELSE IF replacesExisting(auction, entries[at].value)
           THEN [entries EXCEPT ![at] = [key |-> normalizedName, value |-> auction]]
           ELSE entries

\* Lines 278-283.
isAnalysisCandidate(auc) ==
    /\ auc.tier \in {"EPIC", "LEGENDARY", "MYTHIC"}
    /\ auc.loreLength > MIN_LORE_LENGTH
    /\ auc.starting_bid > MIN_ANALYSIS_PRICE

\* Line 278: the values of the map that pass the filter, from the i-th on.
RECURSIVE candidatesFrom(_, _)
candidatesFrom(entries, i) ==
    IF i > Len(entries) THEN <<>>
    ELSE (IF isAnalysisCandidate(entries[i].value)
          THEN <<entries[i].value>> ELSE <<>>)
           \o candidatesFrom(entries, i + 1)

\* auc put into the descending list sorted, after the elements that are not
\* cheaper than it.
RECURSIVE insertDescending(_, _)
insertDescending(sorted, auc) ==
    IF sorted = <<>> THEN <<auc>>
    ELSE IF sorted[1].starting_bid >= auc.starting_bid
         THEN <<sorted[1]>> \o insertDescending(Tail(sorted), auc)
         ELSE <<auc>> \o sorted

\* Line 286: sort((a, b) => b.starting_bid - a.starting_bid), which is
\* stable; the first n candidates sorted.
RECURSIVE sortByBidDescending(_, _)
sortByBidDescending(candidates, n) ==
    IF n = 0 THEN <<>>
    ELSE insertDescending(sortByBidDescending(candidates, n - 1), candidates[n])

\* Line 288: slice(0, count)
sliceTo(list, count) ==
    SubSeq(list, 1, IF count < Len(list) THEN count ELSE Len(list))

\* Lines 265-294: what is returned once the listings are fetched.
itemsForAnalysis(all, count) ==
    LET activeBins == activeBinsOf(all)
        entries == itemMapUpTo(activeBins, Len(activeBins))
        candidates == candidatesFrom(entries, 1)
        sortedCandidates == sortByBidDescending(candidates, Len(candidates))
        taken == sliceTo(sortedCandidates, count)
    IN  [k \in 1..Len(taken) |->
            [id |-> taken[k].uuid,
             name |-> normalizeAuctionName(taken[k].item_name),
             loreLength |-> taken[k].loreLength,
             rarity |-> taken[k].tier,
             price |-> taken[k].starting_bid]]

InitItems ==
    /\ maxItems = 0
    /\ analysisAuctions = <<>>
    /\ analysisItems = <<>>
    /\ itemsPc = "call"
    /\ IdleExceptItems

\* fetchItemsForAnalysis when fetchAllAuctionPages resolves: called with no
\* argument (part_000 line 41) or with 30 (App.tsx line 83).
fetchItemsForAnalysis ==
    /\ itemsPc = "call"
    /\ \E count \in {DEFAULT_MAX_ITEMS, CRAFTING_MAX_ITEMS} :
       \E feed \in MixedFeeds \cup WideFeeds :
          /\ maxItems' = count
          /\ analysisAuctions' = WithAnalysisUuids(feed)
          /\ analysisItems' = itemsForAnalysis(WithAnalysisUuids(feed), count)
    /\ itemsPc' = "done"
    /\ UNCHANGED exceptItems

\* fetchItemsForAnalysis when fetchAllAuctionPages throws (line 264).
fetchItemsForAnalysisFails ==
    /\ itemsPc = "call"
    /\ itemsPc' = "failed"
    /\ UNCHANGED <<maxItems, analysisAuctions, analysisItems, exceptItems>>

NextItems == fetchItemsForAnalysis \/ fetchItemsForAnalysisFails

SpecItems == InitItems /\ [][NextItems]_vars

(***************************************************************************)
(* C26                                                                     *)
(***************************************************************************)
\* The positions of the fetched listings that are unclaimed fixed-price
\* listings of the identity.
ClaimListingsOf(name) ==
    { i \in 1..Len(analysisAuctions) :
        /\ analysisAuctions[i].bin
        /\ ~analysisAuctions[i].claimed
        /\ normalizeAuctionName(analysisAuctions[i].item_name) = name }

\* The position of the lowest-priced listing of the identity, the first seen
\* on a price tie.
ClaimLowestOf(name) ==
    CHOOSE i \in ClaimListingsOf(name) :
        \A j \in ClaimListingsOf(name) :
            \/ analysisAuctions[j].starting_bid > analysisAuctions[i].starting_bid
            \/ /\ analysisAuctions[j].starting_bid = analysisAuctions[i].starting_bid
               /\ j >= i

ClaimPassesFilters(auc) ==
    /\ auc.tier \in {"EPIC", "LEGENDARY", "MYTHIC"}
    /\ auc.loreLength > 50
    /\ auc.starting_bid > 250000

ClaimAnalysisIdentities ==
    { normalizeAuctionName(analysisAuctions[i].item_name) :
        i \in { j \in 1..Len(analysisAuctions) :
                  analysisAuctions[j].bin /\ ~analysisAuctions[j].claimed } }

\* C26: fetchItemsForAnalysis(maxItems) returns at most maxItems candidates,
\* of pairwise distinct normalized identities, sorted by price descending;
\* each one is the lowest-priced unclaimed fixed-price listing of its identity
\* (the first seen on a price tie) and has rarity EPIC, LEGENDARY or MYTHIC,
\* lore longer than 50 and price above 250,000; an identity whose
\* lowest-priced listing fails those filters yields no candidate, even when a
\* dearer listing of it would pass.
C26_AnalysisCandidates ==
    itemsPc = "done" =>
        /\ Len(analysisItems) <= maxItems
        /\ \A k, m \in 1..Len(analysisItems) :
              k # m => analysisItems[k].name # analysisItems[m].name
        /\ \A k \in 1..(Len(analysisItems) - 1) :
              analysisItems[k].price >= analysisItems[k + 1].price
        /\ \A k \in 1..Len(analysisItems) :
              LET item == analysisItems[k] IN
              /\ ClaimListingsOf(item.name) # {}
              /\ LET auc == analysisAuctions[ClaimLowestOf(item.name)] IN
                 /\ item.id = auc.uuid
                 /\ item.price = auc.starting_bid
                 /\ item.rarity = auc.tier
                 /\ item.loreLength = auc.loreLength
                 /\ ClaimPassesFilters(auc)
        /\ \A name \in ClaimAnalysisIdentities :
              ~ClaimPassesFilters(analysisAuctions[ClaimLowestOf(name)])
                 => \A k \in 1..Len(analysisItems) : analysisItems[k].name # name

\* A call returned one candidate, the lowest-priced listing of its identity,
\* while another identity yielded none although a listing of it, dearer than
\* its lowest, passes the filters.
C26_Witness ==
    /\ itemsPc = "done"
    /\ Len(analysisItems) = 1
    /\ analysisItems[1].id = analysisAuctions[ClaimLowestOf(analysisItems[1].name)].uuid
    /\ \E name \in ClaimAnalysisIdentities :
          /\ ~ClaimPassesFilters(analysisAuctions[ClaimLowestOf(name)])
          /\ \E i \in ClaimListingsOf(name) :
                ClaimPassesFilters(analysisAuctions[i])

(***************************************************************************)
(* C27                                                                     *)
(***************************************************************************)
\* The number of candidates of the group: every listing but the cheapest.
ClaimCandidateCount == Len(sortedAuctions) - 1

\* C27: for an ascending group of at least 3 listings, with n the number of
\* candidates, both quartile indices floor(n / 4) and floor(3n / 4) are below
\* n, and the trimmed list is a prefix of the candidate list that keeps at
\* least floor(3n / 4) + 1 >= 2 candidates; so neither fall-back return of
\* findMarketPriceAuction is taken.
C27_TrimKeepsEvidence ==
    (estPc = "done" /\ Len(sortedAuctions) >= 3) =>
        LET n == ClaimCandidateCount IN
        /\ n \div 4 < n
        /\ (3 * n) \div 4 < n
        /\ (3 * n) \div 4 + 1 >= 2
        /\ Len(filteredCandidates) >= (3 * n) \div 4 + 1
        /\ Len(filteredCandidates) <= n
        /\ \A k \in 1..Len(filteredCandidates) :
              filteredCandidates[k] = sortedAuctions[k + 1]

\* A group of at least 3 listings was trimmed down to exactly
\* floor(3n / 4) + 1 candidates, fewer than it had.
C27_Witness ==
    /\ estPc = "done"
    /\ Len(sortedAuctions) >= 3
    /\ Len(filteredCandidates) = (3 * ClaimCandidateCount) \div 4 + 1
    /\ Len(filteredCandidates) < ClaimCandidateCount

(***************************************************************************)
(* Specification SpecReorder: fetchAuctionFlips called twice, the second   *)
(* time with the same listings fetched in another order                    *)
(***************************************************************************)
ReorderListings ==
    [item_name : {NameH, NameHDecorated},
     starting_bid : {49098, 1300000},
     bin : {TRUE}, claimed : {FALSE}]
    \cup
    [item_name : {NameZ},
     starting_bid : {49098, 1300000},
     bin : {TRUE}, claimed : {FALSE}]
    \cup
    { [item_name |-> NameH, starting_bid |-> 100099,
       bin |-> TRUE, claimed |-> FALSE],
      [item_name |-> NameH, starting_bid |-> 49098,
       bin |-> TRUE, claimed |-> TRUE] }

ReorderFeeds ==
    UNION { [1..n -> ReorderListings] : n \in 0..MaxReorderListings }

\* The ways to reorder a sequence of n elements.
Orderings(n) ==
    { f \in [1..n -> 1..n] : \A i, j \in 1..n : i # j => f[i] # f[j] }

\* The listings of all, each as it is, in the order f.
Reordered(all, f) == [i \in 1..Len(all) |-> all[f[i]]]

\* The first call, when fetchAllAuctionPages resolves.
fetchAuctionFlipsFirst ==
    /\ pc = "start"
    /\ \E feed \in ReorderFeeds :
          /\ allAuctions' = WithUuids(feed)
          /\ flips' = detectFlips(WithUuids(feed))
    /\ pc' = "done"
    /\ UNCHANGED exceptPass

\* The second call, when fetchAllAuctionPages resolves with the same
\* listings in some order.
fetchAuctionFlipsReordered ==
    /\ pc = "done"
    /\ \E f \in Orderings(Len(allAuctions)) :
          /\ reorderedAuctions' = Reordered(allAuctions, f)
          /\ reorderedFlips' = detectFlips(Reordered(allAuctions, f))
    /\ pc' = "both"
    /\ UNCHANGED <<allAuctions, flips, estVars, taxVars, normVars, craftVars,
                   pagesVars, trendsVars, bazaarVars, itemsVars, overlapVars>>

NextReorder ==
    \/ fetchAuctionFlipsFirst
    \/ fetchAuctionFlipsReordered
    \/ fetchAuctionFlipsFails

SpecReorder == Init /\ [][NextReorder]_vars

(***************************************************************************)
(* C28                                                                     *)
(***************************************************************************)
\* What a list of flips says apart from the reference listing.
ClaimTuples(list) ==
    { [itemName |-> list[k].itemName,
       lowestBin |-> list[k].lowestBin,
       marketPrice |-> list[k].marketPrice,
       profit |-> list[k].profit] : k \in 1..Len(list) }

\* C28: a feed and any reordering of it give fetchAuctionFlips the same set
\* of (identity, lowestBin, marketPrice, profit) tuples; only the reference
\* listing of a flip may depend on the order of the feed.
C28_OrderIndependent ==
    pc = "both" => ClaimTuples(reorderedFlips) = ClaimTuples(flips)

\* Both calls found a flip, with different reference listings.
C28_Witness ==
    /\ pc = "both"
    /\ Len(flips) = 1
    /\ Len(reorderedFlips) = 1
    /\ reorderedFlips[1].id # flips[1].id

(***************************************************************************)
(* Specification SpecOverlap: AuctionFlips with its 60-second interval,    *)
(* fetchFlips called again whether or not an earlier call has finished     *)
(***************************************************************************)
\* The listings fetchAuctionFlips may find at the time of a call.
OverlapFeeds ==
    { <<>>,
      << [item_name |-> NameH, starting_bid |-> 49098,
          bin |-> TRUE, claimed |-> FALSE],
         [item_name |-> NameH, starting_bid |-> 1300000,
          bin |-> TRUE, claimed |-> FALSE] >>,
      << [item_name |-> NameZ, starting_bid |-> 49098,
          bin |-> TRUE, claimed |-> FALSE],
         [item_name |-> NameZ, starting_bid |-> 1300000,
          bin |-> TRUE, claimed |-> FALSE] >> }

\* The calls of fetchFlips that were started and have not finished.
passesInFlight == { k \in DOMAIN passStatus : passStatus[k] = "inflight" }

\* The state of the other operations and of the page fetching, which this
\* specification leaves alone.
exceptComponent ==
    <<totalPages, chunkStart, pageStatus, listings, newFlips, pagePc,
      pageRequests, estVars, taxVars, passVars, normVars, craftVars,
      trendsVars, bazaarVars, itemsVars, reorderVars>>

InitOverlap ==
    /\ totalPages = 0
    /\ chunkStart = 0
    /\ pageStatus = <<>>
    /\ listings = <<>>
    /\ newFlips = <<>>
    /\ isLoading = TRUE
    /\ error = "null"
    /\ componentFlips = <<>>
    /\ pagePc = "idle"
    /\ pageRequests = <<>>
    /\ passStatus = [k \in 1..MaxPasses |-> "unstarted"]
    /\ flipsSetBy = 0
    /\ IdleEst /\ IdleTax /\ IdlePass /\ IdleNorm /\ IdleCraft
    /\ IdleTrends /\ IdleBazaar /\ IdleItems /\ IdleReorder

\* AuctionFlips.tsx 64-65: fetchFlips is called on mount and by every tick
\* of the interval; lines 46-49 run up to the await.
fetchFlipsCalled ==
    /\ \E k \in DOMAIN passStatus :
          /\ passStatus[k] = "unstarted"
          /\ \A j \in 1..(k - 1) : passStatus[j] # "unstarted"
          /\ passStatus' = [passStatus EXCEPT ![k] = "inflight"]
    /\ isLoading' = TRUE
    /\ error' = "null"
    /\ UNCHANGED <<componentFlips, flipsSetBy, exceptComponent>>

\* AuctionFlips.tsx 49-54, 59: the fetchAuctionFlips of some call in flight
\* resolves.
fetchFlipsReturns ==
    /\ \E k \in passesInFlight :
       \E feed \in OverlapFeeds :
          /\ passStatus' = [passStatus EXCEPT ![k] = "returned"]
          /\ componentFlips' = detectFlips(WithUuids(feed))
          /\ error' = errorAfterReturn(detectFlips(WithUuids(feed)))
          /\ flipsSetBy' = k
    /\ isLoading' = FALSE
    /\ UNCHANGED exceptComponent

\* AuctionFlips.tsx 55-59: the fetchAuctionFlips of some call in flight
\* rejects.
fetchFlipsThrows ==
    /\ \E k \in passesInFlight :
          passStatus' = [passStatus EXCEPT ![k] = "threw"]
    /\ error' = errorAfterThrow
    /\ isLoading' = FALSE
    /\ UNCHANGED <<componentFlips, flipsSetBy, exceptComponent>>

NextOverlap == fetchFlipsCalled \/ fetchFlipsReturns \/ fetchFlipsThrows

SpecOverlap == InitOverlap /\ [][NextOverlap]_vars

(***************************************************************************)
(* C29                                                                     *)
(***************************************************************************)
\* C29: when calls of fetchFlips overlap, their results are applied in the
\* order the calls were started, that is, the flip list set by a call is
\* never overwritten by a call started before it; and isLoading is true
\* whenever a call is in flight.
C29_OverlappingPasses ==
    /\ [][flipsSetBy' >= flipsSetBy]_vars
    /\ [](passesInFlight # {} => isLoading)

====
